---- MODULE Spec2Model ----
(***************************************************************************)
(* Layer-2 transaction variants of core/types: the Optimism deposit        *)
(* transaction (optimism.go) and the Arbitrum transaction family           *)
(* (arbitrum.go, kept here as src/unnamed/part_000).                        *)
(*                                                                         *)
(* Go pointers are modelled by an explicit heap: a sequence of cells, a    *)
(* reference being the index of a cell and Nil the nil pointer.  A *big.Int *)
(* cell holds a natural number, a *common.Address cell holds the address   *)
(* (as the number its 20 bytes spell, big-endian), a []byte cell holds the *)
(* backing array (a sequence of bytes).  A variant is a record whose       *)
(* pointer-typed fields hold references and whose fixed-size fields hold    *)
(* values; embedded structs (LegacyTx, DepositTx) are flattened into the   *)
(* wrapper, as Go's field promotion presents them.                         *)
(***************************************************************************)
EXTENDS Integers, Sequences, FiniteSets, TLC

VARIABLES heap, x, c, op, ret, nmut, tx, err, dec, out

vars == <<heap, x, c, op, ret, nmut, tx, err, dec, out>>

(***************************************************************************)
(* Bounds of the model.                                                    *)
(***************************************************************************)
\* at most this many pointer fields of a constructed variant are nil
MaxNil == 1
\* at most this many in-place mutations after a copy
MaxMut == 1
\* a setSignatureValues call that keeps its arguments leaves at most this
\* many cells on the heap
MaxCells == 16
\* constructed variants draw their field values from profiles 0..MaxProfile
MaxProfile == 1

(***************************************************************************)
(* Program constants.                                                      *)
(***************************************************************************)
OPDepositTxType == 126
ArbitrumDepositTxType == 100
ArbitrumUnsignedTxType == 101
ArbitrumContractTxType == 102
ArbitrumRetryTxType == 104
ArbitrumSubmitRetryableTxType == 105
ArbitrumInternalTxType == 106
ArbitrumLegacyTxType == 120

\* the nil pointer; heap references start at 1
Nil == 0

\* an absent / present value read through a pointer
None == <<>>
Some(v) == <<v>>

\* the absence of a variant (no copy made yet, nothing attached)
NoTx == [kind |-> "none"]

(***************************************************************************)
(* Package-level variables: each is one heap cell, allocated at start-up.  *)
(***************************************************************************)
\* var bigZero = big.NewInt(0)
bigZero == 1
\* common.Big0
Big0 == 2
\* arbosAddress = common.HexToAddress("0xa4b05")
arbosAddress == 3
\* arbRetryableTxAddress = common.HexToAddress("0x6e")
arbRetryableTxAddress == 4

arbosAddressValue == 674565
arbRetryableTxAddressValue == 110

Globals == <<0, 0, arbosAddressValue, arbRetryableTxAddressValue>>

(***************************************************************************)
(* Heap primitives.                                                        *)
(***************************************************************************)
\* new(T) / &T{...}: a fresh cell holding v
New(h, v) == [h |-> Append(h, v), r |-> Len(h) + 1]

NoAlloc(h) == [h |-> h, r |-> Nil]

\* z.Set(src) of math/big: copies the value; src = nil is a nil dereference
BigSet(h, dst, src) == [h EXCEPT ![dst] = h[src]]

\* common.CopyBytes: nil stays nil, otherwise a new backing array
CopyBytes(h, r) == IF r = Nil THEN NoAlloc(h) ELSE New(h, h[r])

\* copyAddressPtr: nil stays nil, otherwise a new address
copyAddressPtr(h, r) == IF r = Nil THEN NoAlloc(h) ELSE New(h, h[r])

\* what a pointer-typed result designates: nil, an existing cell, or a
\* freshly allocated value no one else references
PNil == [k |-> "nil", r |-> Nil, v |-> None]
PCell(r) == [k |-> "cell", r |-> r, v |-> None]
PNew(v) == [k |-> "new", r |-> Nil, v |-> Some(v)]
FromRef(r) == IF r = Nil THEN PNil ELSE PCell(r)

\* the value read through a pointer result
Val(h, p) ==
    CASE p.k = "nil" -> None
      [] p.k = "cell" -> Some(h[p.r])
      [] p.k = "panic" -> <<0, 0>>
      [] OTHER -> p.v

\* the value read through a field reference
Deref(h, r) == IF r = Nil THEN None ELSE Some(h[r])

(***************************************************************************)
(* The variants: their fields, and which of them are pointers.             *)
(***************************************************************************)
Kinds == {"DepositTx", "depositTxWithNonce", "ArbitrumLegacyTxData",
          "ArbitrumUnsignedTx", "ArbitrumInternalTx", "ArbitrumDepositTx",
          "ArbitrumContractTx", "ArbitrumRetryTx", "ArbitrumSubmitRetryableTx"}

\* the pointer-typed fields of each struct, in declaration order
PtrFields(kind) ==
    CASE kind = "DepositTx" -> <<"To", "Mint", "Value", "Data">>
      [] kind = "depositTxWithNonce" -> <<"To", "Mint", "Value", "Data">>
      [] kind = "LegacyTx" -> <<"GasPrice", "To", "Value", "Data", "V", "R", "S">>
      [] kind = "ArbitrumLegacyTxData" ->
            <<"GasPrice", "To", "Value", "Data", "V", "R", "S", "Sender">>
      [] kind = "ArbitrumUnsignedTx" -> <<"ChainId", "GasFeeCap", "To", "Value", "Data">>
      [] kind = "ArbitrumInternalTx" -> <<"ChainId", "Data">>
      [] kind = "ArbitrumDepositTx" -> <<"ChainId", "Value">>
      [] kind = "ArbitrumContractTx" -> <<"ChainId", "GasFeeCap", "To", "Value", "Data">>
      [] kind = "ArbitrumRetryTx" ->
            <<"ChainId", "GasFeeCap", "To", "Value", "Data", "MaxRefund",
              "SubmissionFeeRefund">>
      [] kind = "ArbitrumSubmitRetryableTx" ->
            <<"ChainId", "L1BaseFee", "DepositValue", "GasFeeCap", "RetryTo",
              "RetryValue", "MaxSubmissionFee", "RetryData">>
      [] OTHER -> <<>>

PtrSet(kind) == {PtrFields(kind)[i] : i \in 1..Len(PtrFields(kind))}

\* *common.Address fields, []byte fields; every other pointer is a *big.Int
AddrFields == {"To", "RetryTo", "Sender"}
BytesFields == {"Data", "RetryData"}

\* the pointer fields the struct declarations mark optional: nil is a value
\* of the field (contract creation, nothing minted, no sender override)
OptionalFields == {"To", "RetryTo", "Sender", "Mint"}

\* the variant with every pointer replaced by the value it designates
Load(h, t) == [f \in DOMAIN t |-> IF f \in PtrSet(t.kind) THEN Deref(h, t[f]) ELSE t[f]]

\* a composite literal &T{...}: one fresh cell per non-nil pointer field
RECURSIVE Store(_, _, _)
Store(h, rec, fs) ==
    IF fs = <<>> THEN [h |-> h, tx |-> rec]
    ELSE LET f == Head(fs) IN
         IF rec[f] = None
         THEN Store(h, [rec EXCEPT ![f] = Nil], Tail(fs))
         ELSE Store(Append(h, rec[f][1]), [rec EXCEPT ![f] = Len(h) + 1], Tail(fs))

\* the embedded struct of a wrapper: tx.DepositTx, tx.LegacyTx
DepositTxOf(t) ==
    [kind |-> "DepositTx", SourceHash |-> t.SourceHash, From |-> t.From, To |-> t.To,
     Mint |-> t.Mint, Value |-> t.Value, Gas |-> t.Gas,
     IsSystemTransaction |-> t.IsSystemTransaction, Data |-> t.Data]

LegacyTxOf(t) ==
    [kind |-> "LegacyTx", Nonce |-> t.Nonce, GasPrice |-> t.GasPrice, Gas |-> t.Gas,
     To |-> t.To, Value |-> t.Value, Data |-> t.Data, V |-> t.V, R |-> t.R, S |-> t.S]

(***************************************************************************)
(* copy: one operator per copy method.  Each takes the heap and the source *)
(* variant and yields the heap after the allocations, the new variant, and *)
(* whether the call panicked (a nil dereference).                          *)
(***************************************************************************)
Done(h, t) == [h |-> h, tx |-> t, panic |-> FALSE]
Panic(h) == [h |-> h, tx |-> NoTx, panic |-> TRUE]

\* if tx.F != nil { cpy.F.Set(tx.F) }
SetIf(h, dst, src) == IF src # Nil THEN BigSet(h, dst, src) ELSE h

DepositTx_copy(h, t) ==
    LET to == copyAddressPtr(h, t.To)
        value == New(to.h, 0)
        data == CopyBytes(value.h, t.Data)
        mint == IF t.Mint # Nil THEN New(data.h, data.h[t.Mint]) ELSE NoAlloc(data.h)
        h1 == SetIf(mint.h, value.r, t.Value)
    IN Done(h1, [kind |-> "DepositTx", SourceHash |-> t.SourceHash, From |-> t.From,
                 To |-> to.r, Mint |-> mint.r, Value |-> value.r, Gas |-> t.Gas,
                 IsSystemTransaction |-> t.IsSystemTransaction, Data |-> data.r])

\* depositTxWithNonce declares no copy of its own: the call resolves to the
\* method promoted from the embedded DepositTx, with &tx.DepositTx as receiver
depositTxWithNonce_copy(h, t) == DepositTx_copy(h, DepositTxOf(t))

LegacyTx_copy(h, t) ==
    LET to == copyAddressPtr(h, t.To)
        data == CopyBytes(to.h, t.Data)
        value == New(data.h, 0)
        gasPrice == New(value.h, 0)
        v == New(gasPrice.h, 0)
        r == New(v.h, 0)
        s == New(r.h, 0)
        h1 == SetIf(s.h, value.r, t.Value)
        h2 == SetIf(h1, gasPrice.r, t.GasPrice)
        h3 == SetIf(h2, v.r, t.V)
        h4 == SetIf(h3, r.r, t.R)
        h5 == SetIf(h4, s.r, t.S)
    IN Done(h5, [kind |-> "LegacyTx", Nonce |-> t.Nonce, GasPrice |-> gasPrice.r,
                 Gas |-> t.Gas, To |-> to.r, Value |-> value.r, Data |-> data.r,
                 V |-> v.r, R |-> r.r, S |-> s.r])

ArbitrumLegacyTxData_copy(h, t) ==
    LET legacyCopy == LegacyTx_copy(h, LegacyTxOf(t))
        l == legacyCopy.tx
        sender == IF t.Sender # Nil THEN New(legacyCopy.h, legacyCopy.h[t.Sender])
                  ELSE NoAlloc(legacyCopy.h)
    IN Done(sender.h,
            [kind |-> "ArbitrumLegacyTxData", Nonce |-> l.Nonce, GasPrice |-> l.GasPrice,
             Gas |-> l.Gas, To |-> l.To, Value |-> l.Value, Data |-> l.Data,
             V |-> l.V, R |-> l.R, S |-> l.S,
             HashOverride |-> t.HashOverride, EffectiveGasPrice |-> t.EffectiveGasPrice,
             L1BlockNumber |-> t.L1BlockNumber, Sender |-> sender.r])

\* faulty copy: cpy.GasFeeCap.Set(tx.GasFeeCap) is left out
ArbitrumUnsignedTx_copy_FeeCapNotSet(h, t) ==
    LET chainId == New(h, 0)
        gasFeeCap == New(chainId.h, 0)
        value == New(gasFeeCap.h, 0)
        data == CopyBytes(value.h, t.Data)
        h1 == SetIf(data.h, chainId.r, t.ChainId)
        to == IF t.To # Nil THEN New(h1, h1[t.To]) ELSE NoAlloc(h1)
        h3 == SetIf(to.h, value.r, t.Value)
    IN Done(h3, [kind |-> "ArbitrumUnsignedTx", ChainId |-> chainId.r, From |-> t.From,
                 Nonce |-> t.Nonce, GasFeeCap |-> gasFeeCap.r, Gas |-> t.Gas,
                 To |-> to.r, Value |-> value.r, Data |-> data.r])

ArbitrumUnsignedTx_copy(h, t) ==
    LET chainId == New(h, 0)
        gasFeeCap == New(chainId.h, 0)
        value == New(gasFeeCap.h, 0)
        data == CopyBytes(value.h, t.Data)
        h1 == SetIf(data.h, chainId.r, t.ChainId)
        h2 == SetIf(h1, gasFeeCap.r, t.GasFeeCap)
        to == IF t.To # Nil THEN New(h2, h2[t.To]) ELSE NoAlloc(h2)
        h3 == SetIf(to.h, value.r, t.Value)
    IN Done(h3, [kind |-> "ArbitrumUnsignedTx", ChainId |-> chainId.r, From |-> t.From,
                 Nonce |-> t.Nonce, GasFeeCap |-> gasFeeCap.r, Gas |-> t.Gas,
                 To |-> to.r, Value |-> value.r, Data |-> data.r])

ArbitrumInternalTx_copy(h, t) ==
    IF t.ChainId = Nil THEN Panic(h)
    ELSE LET chainId == New(h, h[t.ChainId])
             data == CopyBytes(chainId.h, t.Data)
         IN Done(data.h, [kind |-> "ArbitrumInternalTx", ChainId |-> chainId.r,
                          Data |-> data.r])

ArbitrumDepositTx_copy(h, t) ==
    LET chainId == New(h, 0)
        value == New(chainId.h, 0)
        h1 == SetIf(value.h, chainId.r, t.ChainId)
        h2 == SetIf(h1, value.r, t.Value)
    IN Done(h2, [kind |-> "ArbitrumDepositTx", ChainId |-> chainId.r,
                 L1RequestId |-> t.L1RequestId, From |-> t.From, To |-> t.To,
                 Value |-> value.r])

ArbitrumContractTx_copy(h, t) ==
    LET chainId == New(h, 0)
        gasFeeCap == New(chainId.h, 0)
        value == New(gasFeeCap.h, 0)
        data == CopyBytes(value.h, t.Data)
        h1 == SetIf(data.h, chainId.r, t.ChainId)
        h2 == SetIf(h1, gasFeeCap.r, t.GasFeeCap)
        to == IF t.To # Nil THEN New(h2, h2[t.To]) ELSE NoAlloc(h2)
        h3 == SetIf(to.h, value.r, t.Value)
    IN Done(h3, [kind |-> "ArbitrumContractTx", ChainId |-> chainId.r,
                 RequestId |-> t.RequestId, From |-> t.From, GasFeeCap |-> gasFeeCap.r,
                 Gas |-> t.Gas, To |-> to.r, Value |-> value.r, Data |-> data.r])

ArbitrumRetryTx_copy(h, t) ==
    LET chainId == New(h, 0)
        gasFeeCap == New(chainId.h, 0)
        value == New(gasFeeCap.h, 0)
        data == CopyBytes(value.h, t.Data)
        maxRefund == New(data.h, 0)
        submissionFeeRefund == New(maxRefund.h, 0)
        h1 == SetIf(submissionFeeRefund.h, chainId.r, t.ChainId)
        h2 == SetIf(h1, gasFeeCap.r, t.GasFeeCap)
        to == IF t.To # Nil THEN New(h2, h2[t.To]) ELSE NoAlloc(h2)
        h3 == SetIf(to.h, value.r, t.Value)
        h4 == SetIf(h3, maxRefund.r, t.MaxRefund)
        h5 == SetIf(h4, submissionFeeRefund.r, t.SubmissionFeeRefund)
    IN Done(h5, [kind |-> "ArbitrumRetryTx", ChainId |-> chainId.r, Nonce |-> t.Nonce,
                 From |-> t.From, GasFeeCap |-> gasFeeCap.r, Gas |-> t.Gas, To |-> to.r,
                 Value |-> value.r, Data |-> data.r, TicketId |-> t.TicketId,
                 RefundTo |-> t.RefundTo, MaxRefund |-> maxRefund.r,
                 SubmissionFeeRefund |-> submissionFeeRefund.r])

\* faulty copy: RetryTo keeps the source's pointer (the clone of lines
\* 482-485 is left out)
ArbitrumSubmitRetryableTx_copy_RetryToShared(h, t) ==
    LET chainId == New(h, 0)
        depositValue == New(chainId.h, 0)
        l1BaseFee == New(depositValue.h, 0)
        gasFeeCap == New(l1BaseFee.h, 0)
        retryValue == New(gasFeeCap.h, 0)
        maxSubmissionFee == New(retryValue.h, 0)
        retryData == CopyBytes(maxSubmissionFee.h, t.RetryData)
        h1 == SetIf(retryData.h, chainId.r, t.ChainId)
        h2 == SetIf(h1, depositValue.r, t.DepositValue)
        h3 == SetIf(h2, l1BaseFee.r, t.L1BaseFee)
        h4 == SetIf(h3, gasFeeCap.r, t.GasFeeCap)
        h5 == SetIf(h4, retryValue.r, t.RetryValue)
        h6 == SetIf(h5, maxSubmissionFee.r, t.MaxSubmissionFee)
    IN Done(h6, [kind |-> "ArbitrumSubmitRetryableTx", ChainId |-> chainId.r,
                 RequestId |-> t.RequestId, From |-> t.From, L1BaseFee |-> l1BaseFee.r,
                 DepositValue |-> depositValue.r, GasFeeCap |-> gasFeeCap.r, Gas |-> t.Gas,
                 RetryTo |-> t.RetryTo, RetryValue |-> retryValue.r,
                 Beneficiary |-> t.Beneficiary, MaxSubmissionFee |-> maxSubmissionFee.r,
                 FeeRefundAddr |-> t.FeeRefundAddr, RetryData |-> retryData.r])

ArbitrumSubmitRetryableTx_copy(h, t) ==
    LET chainId == New(h, 0)
        depositValue == New(chainId.h, 0)
        l1BaseFee == New(depositValue.h, 0)
        gasFeeCap == New(l1BaseFee.h, 0)
        retryValue == New(gasFeeCap.h, 0)
        maxSubmissionFee == New(retryValue.h, 0)
        retryData == CopyBytes(maxSubmissionFee.h, t.RetryData)
        h1 == SetIf(retryData.h, chainId.r, t.ChainId)
        h2 == SetIf(h1, depositValue.r, t.DepositValue)
        h3 == SetIf(h2, l1BaseFee.r, t.L1BaseFee)
        h4 == SetIf(h3, gasFeeCap.r, t.GasFeeCap)
        \* RetryTo: tx.RetryTo in the literal, replaced when it is not nil
        retryTo == IF t.RetryTo # Nil THEN New(h4, h4[t.RetryTo]) ELSE [h |-> h4, r |-> t.RetryTo]
        h5 == SetIf(retryTo.h, retryValue.r, t.RetryValue)
        h6 == SetIf(h5, maxSubmissionFee.r, t.MaxSubmissionFee)
    IN Done(h6, [kind |-> "ArbitrumSubmitRetryableTx", ChainId |-> chainId.r,
                 RequestId |-> t.RequestId, From |-> t.From, L1BaseFee |-> l1BaseFee.r,
                 DepositValue |-> depositValue.r, GasFeeCap |-> gasFeeCap.r, Gas |-> t.Gas,
                 RetryTo |-> retryTo.r, RetryValue |-> retryValue.r,
                 Beneficiary |-> t.Beneficiary, MaxSubmissionFee |-> maxSubmissionFee.r,
                 FeeRefundAddr |-> t.FeeRefundAddr, RetryData |-> retryData.r])

\* tx.copy() through the TxData interface: dynamic dispatch on the variant
copy(h, t) ==
    CASE t.kind = "DepositTx" -> DepositTx_copy(h, t)
      [] t.kind = "depositTxWithNonce" -> depositTxWithNonce_copy(h, t)
      [] t.kind = "ArbitrumLegacyTxData" -> ArbitrumLegacyTxData_copy(h, t)
      [] t.kind = "ArbitrumUnsignedTx" -> ArbitrumUnsignedTx_copy(h, t)
      [] t.kind = "ArbitrumInternalTx" -> ArbitrumInternalTx_copy(h, t)
      [] t.kind = "ArbitrumDepositTx" -> ArbitrumDepositTx_copy(h, t)
      [] t.kind = "ArbitrumContractTx" -> ArbitrumContractTx_copy(h, t)
      [] t.kind = "ArbitrumRetryTx" -> ArbitrumRetryTx_copy(h, t)
      [] t.kind = "ArbitrumSubmitRetryableTx" -> ArbitrumSubmitRetryableTx_copy(h, t)

(***************************************************************************)
(* The accessors of innerTx.  A pointer-typed result says what it points   *)
(* to: a field's cell, a package variable's cell, or a fresh allocation.   *)
(* Each variant's accessor block is one record; rawSignatureValues is the  *)
(* triple <<v, r, s>>.                                                      *)
(***************************************************************************)
\* a pointer into the receiver's own storage (&tx.To)
PField(f, v) == [k |-> "field", r |-> Nil, v |-> Some(v), f |-> f]

DepositTx_accessors(t) ==
    [txType |-> OPDepositTxType,
     chainID |-> PCell(Big0),
     accessList |-> None,
     data |-> FromRef(t.Data),
     gas |-> t.Gas,
     gasFeeCap |-> PNew(0),
     gasTipCap |-> PNew(0),
     gasPrice |-> PNew(0),
     value |-> FromRef(t.Value),
     nonce |-> 0,
     to |-> FromRef(t.To),
     rawSignatureValues |-> <<PCell(Big0), PCell(Big0), PCell(Big0)>>]

\* deriveChainId of the legacy signer: 27 and 28 carry no chain id, v >= 35
\* carries (v - 35) / 2; below 35 the uint64 subtraction wraps, which is kept
\* here as the (negative) number it wraps from
deriveChainId(v) == IF v \in {27, 28} THEN 0 ELSE IF v >= 35 THEN (v - 35) \div 2 ELSE v - 35

\* LegacyTx's accessors, promoted to the wrapper; txType is the wrapper's own
ArbitrumLegacyTxData_accessors(h, t) ==
    [txType |-> ArbitrumLegacyTxType,
     chainID |-> IF t.V = Nil THEN PNil ELSE PNew(deriveChainId(h[t.V])),
     accessList |-> None,
     data |-> FromRef(t.Data),
     gas |-> t.Gas,
     gasFeeCap |-> FromRef(t.GasPrice),
     gasTipCap |-> FromRef(t.GasPrice),
     gasPrice |-> FromRef(t.GasPrice),
     value |-> FromRef(t.Value),
     nonce |-> t.Nonce,
     to |-> FromRef(t.To),
     rawSignatureValues |-> <<FromRef(t.V), FromRef(t.R), FromRef(t.S)>>]

\* faulty accessors: gasPrice reports bigZero instead of the fee cap
ArbitrumUnsignedTx_accessors_ZeroPrice(t) ==
    [txType |-> ArbitrumUnsignedTxType,
     chainID |-> FromRef(t.ChainId),
     accessList |-> None,
     data |-> FromRef(t.Data),
     gas |-> t.Gas,
     gasPrice |-> PCell(bigZero),
     gasTipCap |-> PCell(bigZero),
     gasFeeCap |-> FromRef(t.GasFeeCap),
     value |-> FromRef(t.Value),
     nonce |-> t.Nonce,
     to |-> FromRef(t.To),
     rawSignatureValues |-> <<PCell(bigZero), PCell(bigZero), PCell(bigZero)>>]

ArbitrumUnsignedTx_accessors(t) ==
    [txType |-> ArbitrumUnsignedTxType,
     chainID |-> FromRef(t.ChainId),
     accessList |-> None,
     data |-> FromRef(t.Data),
     gas |-> t.Gas,
     gasPrice |-> FromRef(t.GasFeeCap),
     gasTipCap |-> PCell(bigZero),
     gasFeeCap |-> FromRef(t.GasFeeCap),
     value |-> FromRef(t.Value),
     nonce |-> t.Nonce,
     to |-> FromRef(t.To),
     rawSignatureValues |-> <<PCell(bigZero), PCell(bigZero), PCell(bigZero)>>]

ArbitrumInternalTx_to(t) == PCell(arbosAddress)

ArbitrumInternalTx_accessors(t) ==
    [txType |-> ArbitrumInternalTxType,
     chainID |-> FromRef(t.ChainId),
     accessList |-> None,
     data |-> FromRef(t.Data),
     gas |-> 0,
     gasPrice |-> PCell(bigZero),
     gasTipCap |-> PCell(bigZero),
     gasFeeCap |-> PCell(bigZero),
     value |-> PCell(Big0),
     nonce |-> 0,
     to |-> ArbitrumInternalTx_to(t),
     rawSignatureValues |-> <<PCell(bigZero), PCell(bigZero), PCell(bigZero)>>]

ArbitrumDepositTx_accessors(t) ==
    [txType |-> ArbitrumDepositTxType,
     chainID |-> FromRef(t.ChainId),
     accessList |-> None,
     data |-> PNil,
     gas |-> 0,
     gasPrice |-> PCell(bigZero),
     gasTipCap |-> PCell(bigZero),
     gasFeeCap |-> PCell(bigZero),
     value |-> FromRef(t.Value),
     nonce |-> 0,
     to |-> PField("To", t.To),
     rawSignatureValues |-> <<PCell(bigZero), PCell(bigZero), PCell(bigZero)>>]

ArbitrumContractTx_accessors(t) ==
    [txType |-> ArbitrumContractTxType,
     chainID |-> FromRef(t.ChainId),
     accessList |-> None,
     data |-> FromRef(t.Data),
     gas |-> t.Gas,
     gasPrice |-> FromRef(t.GasFeeCap),
     gasTipCap |-> PCell(bigZero),
     gasFeeCap |-> FromRef(t.GasFeeCap),
     value |-> FromRef(t.Value),
     nonce |-> 0,
     to |-> FromRef(t.To),
     rawSignatureValues |-> <<PCell(bigZero), PCell(bigZero), PCell(bigZero)>>]

ArbitrumRetryTx_accessors(t) ==
    [txType |-> ArbitrumRetryTxType,
     chainID |-> FromRef(t.ChainId),
     accessList |-> None,
     data |-> FromRef(t.Data),
     gas |-> t.Gas,
     gasPrice |-> FromRef(t.GasFeeCap),
     gasTipCap |-> PCell(bigZero),
     gasFeeCap |-> FromRef(t.GasFeeCap),
     value |-> FromRef(t.Value),
     nonce |-> t.Nonce,
     to |-> FromRef(t.To),
     rawSignatureValues |-> <<PCell(bigZero), PCell(bigZero), PCell(bigZero)>>]

(***************************************************************************)
(* Byte strings.                                                           *)
(***************************************************************************)
\* the k low-order base-256 digits of n, most significant first
RECURSIVE BigEndian(_, _)
BigEndian(n, k) == IF k = 0 THEN <<>> ELSE Append(BigEndian(n \div 256, k - 1), n % 256)

\* make([]byte, k)
Zeros(k) == [i \in 1..k |-> 0]

\* math.U256Bytes: the 32-byte big-endian form (of the value mod 2^256)
U256Bytes(n) == BigEndian(n, 32)

\* common.Hash.Bytes, common.Address.Bytes
HashBytes(v) == BigEndian(v, 32)
AddressBytes(a) == BigEndian(a, 20)

\* hexutil.MustDecode("0xc9f95d32")
Selector == <<201, 249, 93, 50>>

(***************************************************************************)
(* ArbitrumSubmitRetryableTx.data: the call data of submitRetryable.  A    *)
(* nil big-integer field is a nil dereference inside math.U256Bytes.       *)
(***************************************************************************)
PPanic == [k |-> "panic", r |-> Nil, v |-> None]
PanicVal == <<0, 0>>

\* faulty data: the padding is appended also when len(RetryData) is a
\* multiple of 32
ArbitrumSubmitRetryableTx_data_PadsAlways(h, t) ==
    IF \E f \in {"L1BaseFee", "DepositValue", "RetryValue", "GasFeeCap", "MaxSubmissionFee"} :
            t[f] = Nil
    THEN PPanic
    ELSE
    LET retryTo == IF t.RetryTo # Nil THEN h[t.RetryTo] ELSE 0
        retryData == IF t.RetryData # Nil THEN h[t.RetryData] ELSE <<>>
        d1 == HashBytes(t.RequestId)
        d2 == d1 \o U256Bytes(h[t.L1BaseFee])
        d3 == d2 \o U256Bytes(h[t.DepositValue])
        d4 == d3 \o U256Bytes(h[t.RetryValue])
        d5 == d4 \o U256Bytes(h[t.GasFeeCap])
        d6 == d5 \o U256Bytes(t.Gas)
        d7 == d6 \o U256Bytes(h[t.MaxSubmissionFee])
        d8 == d7 \o Zeros(12) \o AddressBytes(t.FeeRefundAddr)
        d9 == d8 \o Zeros(12) \o AddressBytes(t.Beneficiary)
        d10 == d9 \o Zeros(12) \o AddressBytes(retryTo)
        offset == Len(d10) + 32
        d11 == d10 \o U256Bytes(offset)
        d12 == d11 \o U256Bytes(Len(retryData))
        d13 == d12 \o retryData
        extra == Len(retryData) % 32
        d14 == d13 \o Zeros(32 - extra)
    IN PNew(Selector \o d14)

\* faulty data: the offset word leaves out its own 32 bytes
ArbitrumSubmitRetryableTx_data_OffsetShort(h, t) ==
    IF \E f \in {"L1BaseFee", "DepositValue", "RetryValue", "GasFeeCap", "MaxSubmissionFee"} :
            t[f] = Nil
    THEN PPanic
    ELSE
    LET retryTo == IF t.RetryTo # Nil THEN h[t.RetryTo] ELSE 0
        retryData == IF t.RetryData # Nil THEN h[t.RetryData] ELSE <<>>
        d1 == HashBytes(t.RequestId)
        d2 == d1 \o U256Bytes(h[t.L1BaseFee])
        d3 == d2 \o U256Bytes(h[t.DepositValue])
        d4 == d3 \o U256Bytes(h[t.RetryValue])
        d5 == d4 \o U256Bytes(h[t.GasFeeCap])
        d6 == d5 \o U256Bytes(t.Gas)
        d7 == d6 \o U256Bytes(h[t.MaxSubmissionFee])
        d8 == d7 \o Zeros(12) \o AddressBytes(t.FeeRefundAddr)
        d9 == d8 \o Zeros(12) \o AddressBytes(t.Beneficiary)
        d10 == d9 \o Zeros(12) \o AddressBytes(retryTo)
        offset == Len(d10)
        d11 == d10 \o U256Bytes(offset)
        d12 == d11 \o U256Bytes(Len(retryData))
        d13 == d12 \o retryData
        extra == Len(retryData) % 32
        d14 == IF extra > 0 THEN d13 \o Zeros(32 - extra) ELSE d13
    IN PNew(Selector \o d14)

ArbitrumSubmitRetryableTx_data(h, t) ==
    IF \E f \in {"L1BaseFee", "DepositValue", "RetryValue", "GasFeeCap", "MaxSubmissionFee"} :
            t[f] = Nil
    THEN PPanic
    ELSE
    LET retryTo == IF t.RetryTo # Nil THEN h[t.RetryTo] ELSE 0
        retryData == IF t.RetryData # Nil THEN h[t.RetryData] ELSE <<>>
        d1 == HashBytes(t.RequestId)
        d2 == d1 \o U256Bytes(h[t.L1BaseFee])
        d3 == d2 \o U256Bytes(h[t.DepositValue])
        d4 == d3 \o U256Bytes(h[t.RetryValue])
        d5 == d4 \o U256Bytes(h[t.GasFeeCap])
        d6 == d5 \o U256Bytes(t.Gas)
        d7 == d6 \o U256Bytes(h[t.MaxSubmissionFee])
        d8 == d7 \o Zeros(12) \o AddressBytes(t.FeeRefundAddr)
        d9 == d8 \o Zeros(12) \o AddressBytes(t.Beneficiary)
        d10 == d9 \o Zeros(12) \o AddressBytes(retryTo)
        offset == Len(d10) + 32
        d11 == d10 \o U256Bytes(offset)
        d12 == d11 \o U256Bytes(Len(retryData))
        d13 == d12 \o retryData
        extra == Len(retryData) % 32
        d14 == IF extra > 0 THEN d13 \o Zeros(32 - extra) ELSE d13
    IN PNew(Selector \o d14)

ArbitrumSubmitRetryableTx_to(t) == PCell(arbRetryableTxAddress)

ArbitrumSubmitRetryableTx_accessors(h, t) ==
    [txType |-> ArbitrumSubmitRetryableTxType,
     chainID |-> FromRef(t.ChainId),
     accessList |-> None,
     data |-> ArbitrumSubmitRetryableTx_data(h, t),
     gas |-> t.Gas,
     gasPrice |-> FromRef(t.GasFeeCap),
     gasTipCap |-> PNew(0),
     gasFeeCap |-> FromRef(t.GasFeeCap),
     value |-> PCell(Big0),
     nonce |-> 0,
     to |-> ArbitrumSubmitRetryableTx_to(t),
     rawSignatureValues |-> <<PCell(bigZero), PCell(bigZero), PCell(bigZero)>>]

\* a call through the TxData interface: dynamic dispatch on the variant
accessors(h, t) ==
    CASE t.kind = "DepositTx" -> DepositTx_accessors(t)
      [] t.kind = "depositTxWithNonce" -> DepositTx_accessors(DepositTxOf(t))
      [] t.kind = "ArbitrumLegacyTxData" -> ArbitrumLegacyTxData_accessors(h, t)
      [] t.kind = "ArbitrumUnsignedTx" -> ArbitrumUnsignedTx_accessors(t)
      [] t.kind = "ArbitrumInternalTx" -> ArbitrumInternalTx_accessors(t)
      [] t.kind = "ArbitrumDepositTx" -> ArbitrumDepositTx_accessors(t)
      [] t.kind = "ArbitrumContractTx" -> ArbitrumContractTx_accessors(t)
      [] t.kind = "ArbitrumRetryTx" -> ArbitrumRetryTx_accessors(t)
      [] t.kind = "ArbitrumSubmitRetryableTx" -> ArbitrumSubmitRetryableTx_accessors(h, t)

(***************************************************************************)
(* effectiveGasPrice(dst, baseFee): writes the price into dst and returns  *)
(* dst.  Set on a nil source is a nil dereference.                         *)
(***************************************************************************)
\* return dst.Set(src)
ReturnSet(h, dst, src) ==
    IF src = Nil THEN [h |-> h, r |-> Nil, panic |-> TRUE]
    ELSE [h |-> BigSet(h, dst, src), r |-> dst, panic |-> FALSE]

\* return dst.Set(new(big.Int))
DepositTx_effectiveGasPrice(h, t, dst, baseFee) ==
    [h |-> [h EXCEPT ![dst] = 0], r |-> dst, panic |-> FALSE]

\* LegacyTx.effectiveGasPrice, promoted: return dst.Set(tx.GasPrice)
ArbitrumLegacyTxData_effectiveGasPrice(h, t, dst, baseFee) == ReturnSet(h, dst, t.GasPrice)

\* faulty effectiveGasPrice: the fee cap whatever baseFee is
ArbitrumUnsignedTx_effectiveGasPrice_IgnoresBaseFee(h, t, dst, baseFee) ==
    ReturnSet(h, dst, t.GasFeeCap)

ArbitrumUnsignedTx_effectiveGasPrice(h, t, dst, baseFee) ==
    IF baseFee = Nil THEN ReturnSet(h, dst, t.GasFeeCap) ELSE ReturnSet(h, dst, baseFee)

ArbitrumInternalTx_effectiveGasPrice(h, t, dst, baseFee) == ReturnSet(h, dst, bigZero)

ArbitrumDepositTx_effectiveGasPrice(h, t, dst, baseFee) == ReturnSet(h, dst, bigZero)

ArbitrumContractTx_effectiveGasPrice(h, t, dst, baseFee) ==
    IF baseFee = Nil THEN ReturnSet(h, dst, t.GasFeeCap) ELSE ReturnSet(h, dst, baseFee)

ArbitrumRetryTx_effectiveGasPrice(h, t, dst, baseFee) ==
    IF baseFee = Nil THEN ReturnSet(h, dst, t.GasFeeCap) ELSE ReturnSet(h, dst, baseFee)

ArbitrumSubmitRetryableTx_effectiveGasPrice(h, t, dst, baseFee) ==
    IF baseFee = Nil THEN ReturnSet(h, dst, t.GasFeeCap) ELSE ReturnSet(h, dst, baseFee)

effectiveGasPrice(h, t, dst, baseFee) ==
    CASE t.kind = "DepositTx" -> DepositTx_effectiveGasPrice(h, t, dst, baseFee)
      [] t.kind = "depositTxWithNonce" ->
            DepositTx_effectiveGasPrice(h, DepositTxOf(t), dst, baseFee)
      [] t.kind = "ArbitrumLegacyTxData" ->
            ArbitrumLegacyTxData_effectiveGasPrice(h, t, dst, baseFee)
      [] t.kind = "ArbitrumUnsignedTx" -> ArbitrumUnsignedTx_effectiveGasPrice(h, t, dst, baseFee)
      [] t.kind = "ArbitrumInternalTx" -> ArbitrumInternalTx_effectiveGasPrice(h, t, dst, baseFee)
      [] t.kind = "ArbitrumDepositTx" -> ArbitrumDepositTx_effectiveGasPrice(h, t, dst, baseFee)
      [] t.kind = "ArbitrumContractTx" -> ArbitrumContractTx_effectiveGasPrice(h, t, dst, baseFee)
      [] t.kind = "ArbitrumRetryTx" -> ArbitrumRetryTx_effectiveGasPrice(h, t, dst, baseFee)
      [] t.kind = "ArbitrumSubmitRetryableTx" ->
            ArbitrumSubmitRetryableTx_effectiveGasPrice(h, t, dst, baseFee)

(***************************************************************************)
(* setSignatureValues(chainID, v, r, s): one operator per method, yielding *)
(* the heap and the variant after the call.  The arguments are pointers,   *)
(* Nil or cells of the heap.                                               *)
(***************************************************************************)
\* a faulty method: s is kept in the Value field
DepositTx_setSignatureValues_Stores(h, t, chainID, v, r, s) ==
    [h |-> h, tx |-> [t EXCEPT !.Value = s]]

DepositTx_setSignatureValues(h, t, chainID, v, r, s) == [h |-> h, tx |-> t]

\* LegacyTx.setSignatureValues, promoted: tx.V, tx.R, tx.S = v, r, s
ArbitrumLegacyTxData_setSignatureValues(h, t, chainID, v, r, s) ==
    [h |-> h, tx |-> [t EXCEPT !.V = v, !.R = r, !.S = s]]

ArbitrumUnsignedTx_setSignatureValues(h, t, chainID, v, r, s) == [h |-> h, tx |-> t]

ArbitrumInternalTx_setSignatureValues(h, t, chainID, v, r, s) == [h |-> h, tx |-> t]

ArbitrumDepositTx_setSignatureValues(h, t, chainID, v, r, s) == [h |-> h, tx |-> t]

ArbitrumContractTx_setSignatureValues(h, t, chainID, v, r, s) == [h |-> h, tx |-> t]

ArbitrumRetryTx_setSignatureValues(h, t, chainID, v, r, s) == [h |-> h, tx |-> t]

ArbitrumSubmitRetryableTx_setSignatureValues(h, t, chainID, v, r, s) ==
    [h |-> h, tx |-> t]

setSignatureValues(h, t, chainID, v, r, s) ==
    CASE t.kind \in {"DepositTx", "depositTxWithNonce"} ->
            DepositTx_setSignatureValues(h, t, chainID, v, r, s)
      [] t.kind = "ArbitrumLegacyTxData" ->
            ArbitrumLegacyTxData_setSignatureValues(h, t, chainID, v, r, s)
      [] t.kind = "ArbitrumUnsignedTx" ->
            ArbitrumUnsignedTx_setSignatureValues(h, t, chainID, v, r, s)
      [] t.kind = "ArbitrumInternalTx" ->
            ArbitrumInternalTx_setSignatureValues(h, t, chainID, v, r, s)
      [] t.kind = "ArbitrumDepositTx" ->
            ArbitrumDepositTx_setSignatureValues(h, t, chainID, v, r, s)
      [] t.kind = "ArbitrumContractTx" ->
            ArbitrumContractTx_setSignatureValues(h, t, chainID, v, r, s)
      [] t.kind = "ArbitrumRetryTx" ->
            ArbitrumRetryTx_setSignatureValues(h, t, chainID, v, r, s)
      [] t.kind = "ArbitrumSubmitRetryableTx" ->
            ArbitrumSubmitRetryableTx_setSignatureValues(h, t, chainID, v, r, s)

(***************************************************************************)
(* What a caller observes of a variant through the interface: the value    *)
(* behind every accessor's result, and the price effectiveGasPrice writes  *)
(* into a fresh dst for each base fee of BaseFees (None: a nil baseFee).   *)
(***************************************************************************)
BaseFees == {None, Some(2), Some(9)}

\* tx.effectiveGasPrice(new(big.Int), baseFee), as Transaction's methods call it
effectiveGasPriceVal(h, t, b) ==
    LET dst == New(h, 0)
        baseFee == IF b = None THEN NoAlloc(dst.h) ELSE New(dst.h, b[1])
        res == effectiveGasPrice(baseFee.h, t, dst.r, baseFee.r)
    IN IF res.panic THEN PanicVal ELSE Some(res.h[res.r])

Obs(h, t) ==
    LET a == accessors(h, t) IN
    [txType |-> a.txType,
     chainID |-> Val(h, a.chainID),
     accessList |-> a.accessList,
     data |-> Val(h, a.data),
     gas |-> a.gas,
     gasPrice |-> Val(h, a.gasPrice),
     gasTipCap |-> Val(h, a.gasTipCap),
     gasFeeCap |-> Val(h, a.gasFeeCap),
     value |-> Val(h, a.value),
     nonce |-> a.nonce,
     to |-> Val(h, a.to),
     rawSignatureValues |-> <<Val(h, a.rawSignatureValues[1]),
                              Val(h, a.rawSignatureValues[2]),
                              Val(h, a.rawSignatureValues[3])>>,
     effectiveGasPrice |-> [b \in BaseFees |-> effectiveGasPriceVal(h, t, b)]]

(***************************************************************************)
(* Explicit construction: the composite literals a caller can write.  The  *)
(* field values of profile p are pairwise distinct within a variant, so a  *)
(* copy that mixes two fields up is seen.                                  *)
(***************************************************************************)
Template(kind, p) ==
    CASE kind = "DepositTx" ->
            [kind |-> kind, SourceHash |-> 11 + p, From |-> 12 + p, To |-> Some(13 + p),
             Mint |-> Some(2 + p), Value |-> Some(3 + p), Gas |-> 4 + p,
             IsSystemTransaction |-> (p % 2 = 1), Data |-> Some(<<1 + p, 2>>)]
      [] kind = "depositTxWithNonce" ->
            [kind |-> kind, SourceHash |-> 11 + p, From |-> 12 + p, To |-> Some(13 + p),
             Mint |-> Some(2 + p), Value |-> Some(3 + p), Gas |-> 4 + p,
             IsSystemTransaction |-> (p % 2 = 1), Data |-> Some(<<1 + p, 2>>),
             EffectiveNonce |-> 7 + p]
      [] kind = "ArbitrumLegacyTxData" ->
            [kind |-> kind, Nonce |-> 1 + p, GasPrice |-> Some(2 + p), Gas |-> 3 + p,
             To |-> Some(13 + p), Value |-> Some(4 + p), Data |-> Some(<<1 + p, 2>>),
             V |-> Some(37 + p), R |-> Some(5 + p), S |-> Some(6 + p),
             HashOverride |-> 21 + p, EffectiveGasPrice |-> 8 + p,
             L1BlockNumber |-> 9 + p, Sender |-> Some(14 + p)]
      [] kind = "ArbitrumUnsignedTx" ->
            [kind |-> kind, ChainId |-> Some(1 + p), From |-> 12 + p, Nonce |-> 2 + p,
             GasFeeCap |-> Some(3 + p), Gas |-> 4 + p, To |-> Some(13 + p),
             Value |-> Some(5 + p), Data |-> Some(<<1 + p, 2>>)]
      [] kind = "ArbitrumInternalTx" ->
            [kind |-> kind, ChainId |-> Some(1 + p), Data |-> Some(<<1 + p, 2>>)]
      [] kind = "ArbitrumDepositTx" ->
            [kind |-> kind, ChainId |-> Some(1 + p), L1RequestId |-> 11 + p,
             From |-> 12 + p, To |-> 13 + p, Value |-> Some(5 + p)]
      [] kind = "ArbitrumContractTx" ->
            [kind |-> kind, ChainId |-> Some(1 + p), RequestId |-> 11 + p, From |-> 12 + p,
             GasFeeCap |-> Some(3 + p), Gas |-> 4 + p, To |-> Some(13 + p),
             Value |-> Some(5 + p), Data |-> Some(<<1 + p, 2>>)]
      [] kind = "ArbitrumRetryTx" ->
            [kind |-> kind, ChainId |-> Some(1 + p), Nonce |-> 2 + p, From |-> 12 + p,
             GasFeeCap |-> Some(3 + p), Gas |-> 4 + p, To |-> Some(13 + p),
             Value |-> Some(5 + p), Data |-> Some(<<1 + p, 2>>), TicketId |-> 11 + p,
             RefundTo |-> 14 + p, MaxRefund |-> Some(6 + p),
             SubmissionFeeRefund |-> Some(7 + p)]
      [] kind = "ArbitrumSubmitRetryableTx" ->
            [kind |-> kind, ChainId |-> Some(1 + p), RequestId |-> 11 + p, From |-> 12 + p,
             L1BaseFee |-> Some(2 + p), DepositValue |-> Some(3 + p),
             GasFeeCap |-> Some(4 + p), Gas |-> 5 + p, RetryTo |-> Some(13 + p),
             RetryValue |-> Some(6 + p), Beneficiary |-> 14 + p,
             MaxSubmissionFee |-> Some(7 + p), FeeRefundAddr |-> 15 + p,
             RetryData |-> Some(<<1 + p, 2>>)]

\* the literal with the pointer fields of N left out (nil)
NilOut(rec, N) == [f \in DOMAIN rec |-> IF f \in N THEN None ELSE rec[f]]

NilSets(kind) == {N \in SUBSET PtrSet(kind) : Cardinality(N) <= MaxNil} \cup {PtrSet(kind)}

Construct(h, kind, p, N) == Store(h, NilOut(Template(kind, p), N), PtrFields(kind))

(***************************************************************************)
(* Variants in use.  x is a variant a caller constructed, c the result of  *)
(* x.copy() once it has been taken.  op names the last operation, ret      *)
(* holds what the last call returned, nmut counts in-place mutations.      *)
(***************************************************************************)
NoRet == [call |-> "none"]
Idle == [kind |-> "idle"]

Target(who) == IF who = "x" THEN x ELSE c

InitCopy ==
    /\ \E kind \in Kinds, p \in 0..MaxProfile :
         \E N \in NilSets(kind) :
            LET s == Construct(Globals, kind, p, N) IN
            /\ heap = s.h
            /\ x = s.tx
    /\ c = NoTx
    /\ op = "new"
    /\ ret = NoRet
    /\ nmut = 0
    /\ tx = Idle
    /\ err = ""
    /\ dec = Idle
    /\ out = <<>>

\* c := x.copy()
Copy ==
    /\ c = NoTx
    /\ op # "panic"
    /\ LET res == copy(heap, x) IN
       /\ heap' = res.h
       /\ c' = res.tx
       /\ op' = IF res.panic THEN "panic" ELSE "copy"
    /\ ret' = NoRet
    /\ UNCHANGED <<x, nmut, tx, err, dec, out>>

\* what an in-place mutation leaves in a cell: big.Int.Add(z, z, 1), a changed
\* address byte, a changed first byte of the buffer
Mutated(f, v) ==
    IF f \in BytesFields THEN [v EXCEPT ![1] = (v[1] + 1) % 256] ELSE v + 1

\* an in-place mutation through pointer field f of the variant `who`
Mutate(who, f) ==
    /\ c # NoTx
    /\ nmut < MaxMut
    /\ f \in PtrSet(Target(who).kind)
    /\ Target(who)[f] # Nil
    /\ f \in BytesFields => Len(heap[Target(who)[f]]) > 0
    /\ heap' = [heap EXCEPT ![Target(who)[f]] = Mutated(f, @)]
    /\ op' = IF who = "x" THEN "mutateX" ELSE "mutateC"
    /\ nmut' = nmut + 1
    /\ ret' = NoRet
    /\ UNCHANGED <<x, c, tx, err, dec, out>>

\* the accessors of the variant `who`, each called once
Accessors(who) ==
    /\ nmut = 0
    /\ Target(who) # NoTx
    /\ ret' = [call |-> "accessors", who |-> who, obs |-> Obs(heap, Target(who))]
    /\ op' = "accessors"
    /\ UNCHANGED <<heap, x, c, nmut, tx, err, dec, out>>

\* who.effectiveGasPrice(new(big.Int), baseFee); dst and baseFee are the
\* caller's and are dropped after the call
EffectiveGasPrice(who, b) ==
    /\ nmut = 0
    /\ Target(who) # NoTx
    /\ LET dst == New(heap, 0)
           baseFee == IF b = None THEN NoAlloc(dst.h) ELSE New(dst.h, b[1])
           res == effectiveGasPrice(baseFee.h, Target(who), dst.r, baseFee.r)
       IN /\ heap' = SubSeq(res.h, 1, Len(heap))
          /\ ret' = [call |-> "effectiveGasPrice", who |-> who, baseFee |-> b,
                     val |-> IF res.panic THEN PanicVal ELSE Some(res.h[res.r])]
    /\ op' = "effectiveGasPrice"
    /\ UNCHANGED <<x, c, nmut, tx, err, dec, out>>

\* p := who.to()
To(who) ==
    /\ nmut = 0
    /\ Target(who) # NoTx
    /\ ret' = [call |-> "to", who |-> who, p |-> accessors(heap, Target(who)).to]
    /\ op' = "to"
    /\ UNCHANGED <<heap, x, c, nmut, tx, err, dec, out>>

\* *p = addr (the address 99), for the p the last to() returned
WriteThrough ==
    /\ ret.call = "to"
    /\ ret.p.k \in {"cell", "field"}
    /\ IF ret.p.k = "cell"
       THEN /\ heap' = [heap EXCEPT ![ret.p.r] = 99]
            /\ UNCHANGED <<x, c>>
       ELSE /\ x' = IF ret.who = "x" THEN [x EXCEPT ![ret.p.f] = 99] ELSE x
            /\ c' = IF ret.who = "c" THEN [c EXCEPT ![ret.p.f] = 99] ELSE c
            /\ UNCHANGED heap
    /\ op' = "write"
    /\ ret' = NoRet
    /\ UNCHANGED <<nmut, tx, err, dec, out>>

\* the arguments of a setSignatureValues call: chainID, v, r, s, each nil or
\* a value
SigArgs == {<<Some(1), Some(27), Some(5), Some(6)>>, <<None, None, None, None>>}

\* who.setSignatureValues(chainID, v, r, s) with arguments the caller has
\* allocated; a variant that keeps none of them leaves them to be dropped
SetSignatureValues(who, a) ==
    /\ nmut = 0
    /\ Target(who) # NoTx
    /\ LET chainID == IF a[1] = None THEN NoAlloc(heap) ELSE New(heap, a[1][1])
           v == IF a[2] = None THEN NoAlloc(chainID.h) ELSE New(chainID.h, a[2][1])
           r == IF a[3] = None THEN NoAlloc(v.h) ELSE New(v.h, a[3][1])
           s == IF a[4] = None THEN NoAlloc(r.h) ELSE New(r.h, a[4][1])
           res == setSignatureValues(s.h, Target(who), chainID.r, v.r, r.r, s.r)
       IN /\ res.tx # Target(who) => Len(res.h) <= MaxCells
          /\ heap' = IF res.tx = Target(who) THEN heap ELSE res.h
          /\ x' = IF who = "x" THEN res.tx ELSE x
          /\ c' = IF who = "c" THEN res.tx ELSE c
    /\ ret' = [call |-> "setSignatureValues", who |-> who]
    /\ op' = "setSignatureValues"
    /\ UNCHANGED <<nmut, tx, err, dec, out>>

NextCopy ==
    \/ Copy
    \/ \E who \in {"x", "c"}, a \in SigArgs : SetSignatureValues(who, a)
    \/ \E who \in {"x", "c"}, f \in AddrFields \cup BytesFields \cup
            {"ChainId", "GasFeeCap", "Value", "Mint", "GasPrice", "V", "R", "S",
             "MaxRefund", "SubmissionFeeRefund", "L1BaseFee", "DepositValue",
             "RetryValue", "MaxSubmissionFee"} : Mutate(who, f)
    \/ \E who \in {"x", "c"} : Accessors(who)
    \/ \E who \in {"x", "c"}, b \in BaseFees : EffectiveGasPrice(who, b)
    \/ \E who \in {"x", "c"} : To(who)
    \/ WriteThrough

SpecCopy == InitCopy /\ [][NextCopy]_vars

(***************************************************************************)
(* Properties of copy and of the accessors, checked under SpecCopy.        *)
(***************************************************************************)
SystemKinds == {"DepositTx", "depositTxWithNonce", "ArbitrumInternalTx", "ArbitrumDepositTx"}
FeeMarketKinds == {"ArbitrumUnsignedTx", "ArbitrumContractTx", "ArbitrumRetryTx",
                   "ArbitrumSubmitRetryableTx"}

\* the *big.Int fields that are not declared optional
RequiredBigFields(kind) == PtrSet(kind) \ (OptionalFields \cup BytesFields)

\* every non-optional big-integer field is set
RequiredSet(t) == \A f \in RequiredBigFields(t.kind) : t[f] # Nil

\* C2: after c = copy(x), an in-place mutation through a pointer field of c
\* leaves every field of x as it was, and a mutation through a pointer field
\* of x leaves every field of c as it was
C2_CopyStorageDisjoint ==
    [][/\ (op' = "mutateC" /\ nmut' # nmut) => Load(heap', x') = Load(heap, x)
       /\ (op' = "mutateX" /\ nmut' # nmut) => Load(heap', c') = Load(heap, c)]_vars

\* the copy's RetryTo has been overwritten in place and the original's
\* still holds the address it had
C2_Witness ==
    /\ op = "mutateC"
    /\ nmut > 0
    /\ c.kind = "ArbitrumSubmitRetryableTx"
    /\ c.RetryTo # Nil
    /\ Deref(heap, c.RetryTo) # Deref(heap, x.RetryTo)

\* an optional field that is nil in x is nil in the copy
OptionalNilKept ==
    \A f \in OptionalFields \cap PtrSet(x.kind) : x[f] = Nil => c[f] = Nil

C4_CopyPreservesShape ==
    op = "copy" =>
        /\ c.kind = x.kind
        /\ \A f \in DOMAIN x \ PtrSet(x.kind) : c[f] = x[f]

\* the price effectiveGasPrice must report, as C8 states it
C8_ResultOriginal(r, h, t) ==
    /\ t.kind \in SystemKinds => r.val = Some(0)
    /\ t.kind \in FeeMarketKinds =>
          IF r.baseFee = None THEN r.val = Deref(h, t.GasFeeCap) ELSE r.val = r.baseFee

\* and as amended: with baseFee nil the fee cap is reported when it is set,
\* and the call panics when it is nil
C8_ResultAmended(r, h, t) ==
    /\ t.kind \in SystemKinds => r.val = Some(0)
    /\ t.kind \in FeeMarketKinds =>
          IF r.baseFee = None
          THEN IF t.GasFeeCap # Nil THEN r.val = Some(h[t.GasFeeCap]) ELSE r.val = PanicVal
          ELSE r.val = r.baseFee

\* the call changes no field of any variant
C8_Frame ==
    /\ x' = x
    /\ c' = c
    /\ Load(heap', x) = Load(heap, x)
    /\ Load(heap', c) = Load(heap, c)

\* C7 as stated: gasPrice, gasTipCap and gasFeeCap are zero, never nil, on
\* the system variants, and all three equal GasFeeCap on the fee-market ones
C7_Original ==
    ret.call = "accessors" =>
        LET t == Target(ret.who) IN
        /\ t.kind \in SystemKinds =>
              /\ ret.obs.gasPrice = Some(0)
              /\ ret.obs.gasTipCap = Some(0)
              /\ ret.obs.gasFeeCap = Some(0)
        /\ t.kind \in FeeMarketKinds =>
              /\ ret.obs.gasPrice = Deref(heap, t.GasFeeCap)
              /\ ret.obs.gasTipCap = Deref(heap, t.GasFeeCap)
              /\ ret.obs.gasFeeCap = Deref(heap, t.GasFeeCap)

\* C7 amended: on the fee-market variants gasPrice and gasFeeCap equal
\* GasFeeCap, and gasTipCap is zero
C7_FeeAccessors ==
    ret.call = "accessors" =>
        LET t == Target(ret.who) IN
        /\ t.kind \in SystemKinds =>
              /\ ret.obs.gasPrice = Some(0)
              /\ ret.obs.gasTipCap = Some(0)
              /\ ret.obs.gasFeeCap = Some(0)
        /\ t.kind \in FeeMarketKinds =>
              /\ ret.obs.gasPrice = Deref(heap, t.GasFeeCap)
              /\ ret.obs.gasTipCap = Some(0)
              /\ ret.obs.gasFeeCap = Deref(heap, t.GasFeeCap)

C7_Witness ==
    /\ ret.call = "accessors"
    /\ Target(ret.who).kind = "ArbitrumContractTx"
    /\ ret.obs.gasFeeCap = Some(4)
    /\ ret.obs.gasPrice = Some(4)
    /\ ret.obs.gasTipCap = Some(0)

\* C8 as stated: effectiveGasPrice reports zero on a feeless variant, the
\* fee cap on a fee-market variant when baseFee is nil and baseFee itself
\* when it is present, and changes no field of the variant
C8_Original ==
    [][op' = "effectiveGasPrice" =>
          (C8_Frame /\ C8_ResultOriginal(ret', heap', Target(ret'.who)))]_vars

\* C8 amended: the same, the fee cap being reported for a nil baseFee when
\* GasFeeCap is non-nil (with both nil the call panics)
C8_EffectiveGasPrice ==
    [][op' = "effectiveGasPrice" =>
          (C8_Frame /\ C8_ResultAmended(ret', heap', Target(ret'.who)))]_vars

C8_Witness ==
    /\ ret.call = "effectiveGasPrice"
    /\ Target(ret.who).kind = "ArbitrumRetryTx"
    /\ ret.baseFee = Some(9)
    /\ ret.val = Some(9)
    /\ Deref(heap, Target(ret.who).GasFeeCap) = Some(3)

\* C9: to() on ArbitrumInternalTx and on ArbitrumSubmitRetryableTx is never
\* nil and designates the well-known address, whatever was written through
\* the pointers earlier to() calls returned
C9_ToIsOwnedConstant ==
    ret.call = "to" =>
        LET t == Target(ret.who) IN
        /\ t.kind = "ArbitrumInternalTx" => Val(heap, ret.p) = Some(arbosAddressValue)
        /\ t.kind = "ArbitrumSubmitRetryableTx" =>
              Val(heap, ret.p) = Some(arbRetryableTxAddressValue)

(***************************************************************************)
(* data() of the submit-retryable variant, applied to constructed          *)
(* variants: retry payloads of every length up to MaxRetryLen, RetryTo nil *)
(* or set, MaxSubmissionFee nil or set.  Profile 0 is the ticket of the    *)
(* worked example: request id 1, fee cap 1, gas 21000, everything else 0.  *)
(***************************************************************************)
MaxRetryLen == 33
MaxDataProfile == 1

RetryPayload(n, q) == [i \in 1..n |-> (7 * i + q) % 256]

DataTemplate(q, n) ==
    IF q = 0
    THEN [kind |-> "ArbitrumSubmitRetryableTx", ChainId |-> Some(1), RequestId |-> 1,
          From |-> 0, L1BaseFee |-> Some(0), DepositValue |-> Some(0),
          GasFeeCap |-> Some(1), Gas |-> 21000, RetryTo |-> Some(0),
          RetryValue |-> Some(0), Beneficiary |-> 0, MaxSubmissionFee |-> Some(0),
          FeeRefundAddr |-> 0, RetryData |-> Some(RetryPayload(n, q))]
    ELSE [kind |-> "ArbitrumSubmitRetryableTx", ChainId |-> Some(1), RequestId |-> 65536 + q,
          From |-> 12, L1BaseFee |-> Some(256 + q), DepositValue |-> Some(512 + q),
          GasFeeCap |-> Some(768 + q), Gas |-> 21000 + q, RetryTo |-> Some(1024 + q),
          RetryValue |-> Some(1280 + q), Beneficiary |-> 1536 + q,
          MaxSubmissionFee |-> Some(1792 + q), FeeRefundAddr |-> 2048 + q,
          RetryData |-> Some(RetryPayload(n, q))]

InitData ==
    /\ \E q \in 0..MaxDataProfile, n \in 0..MaxRetryLen :
         \E N \in SUBSET {"RetryTo", "MaxSubmissionFee"} :
            LET s == Store(Globals, NilOut(DataTemplate(q, n), N),
                           PtrFields("ArbitrumSubmitRetryableTx")) IN
            /\ heap = s.h
            /\ x = s.tx
    /\ c = NoTx
    /\ op = "new"
    /\ ret = NoRet
    /\ nmut = 0
    /\ tx = Idle
    /\ err = ""
    /\ dec = Idle
    /\ out = <<>>

\* out := x.data()
Data ==
    /\ op = "new"
    /\ out' = Val(heap, accessors(heap, x).data)
    /\ op' = "data"
    /\ UNCHANGED <<heap, x, c, ret, nmut, tx, err, dec>>

NextData == Data

SpecData == InitData /\ [][NextData]_vars

\* the number a byte string spells, big-endian
RECURSIVE BEValue(_)
BEValue(s) == IF s = <<>> THEN 0 ELSE BEValue(SubSeq(s, 1, Len(s) - 1)) * 256 + s[Len(s)]

\* the k-th 32-byte word after the selector
Word(d, k) == SubSeq(d, 4 + 32 * (k - 1) + 1, 4 + 32 * k)

\* the ticket of the worked example
IsExampleTicket ==
    LET v == Load(heap, x) IN
    /\ v.RequestId = 1 /\ v.L1BaseFee = Some(0) /\ v.DepositValue = Some(0)
    /\ v.RetryValue = Some(0) /\ v.GasFeeCap = Some(1) /\ v.Gas = 21000
    /\ v.MaxSubmissionFee = Some(0) /\ v.FeeRefundAddr = 0 /\ v.Beneficiary = 0
    /\ v.RetryTo \in {None, Some(0)}
    /\ v.RetryData \in {None, Some(<<>>)}

\* C5 as stated: for the example ticket data() is the selector followed by
\* exactly 320 bytes
C5_Original ==
    (op = "data" /\ IsExampleTicket) =>
        /\ Len(out) = 1
        /\ SubSeq(out[1], 1, 4) = Selector
        /\ Len(out[1]) = 4 + 320

\* C5 amended: for the example ticket data() is the selector followed by
\* exactly 384 bytes: ten fixed words (request id 1, three zero words, fee
\* cap 1, gas 21000, zero max submission fee, three zero addresses), the
\* offset word 352 and the length word 0, and no payload bytes
C5_ExampleCallData ==
    (op = "data" /\ IsExampleTicket) =>
        out = Some(<<201, 249, 93, 50>>
                   \o Zeros(31) \o <<1>>
                   \o Zeros(32) \o Zeros(32) \o Zeros(32)
                   \o Zeros(31) \o <<1>>
                   \o Zeros(30) \o <<82, 8>>
                   \o Zeros(32)
                   \o Zeros(32) \o Zeros(32) \o Zeros(32)
                   \o Zeros(30) \o <<1, 96>>
                   \o Zeros(32))

C5_Witness ==
    /\ op = "data"
    /\ IsExampleTicket
    /\ x.RetryTo # Nil
    /\ Len(out) = 1
    /\ Len(out[1]) = 388

\* C6: with every big-integer field set, data() is the selector, the words
\* RequestId, L1BaseFee, DepositValue, RetryValue, GasFeeCap, Gas,
\* MaxSubmissionFee, the addresses FeeRefundAddr, Beneficiary and RetryTo
\* (zero when nil) right-aligned in a word each, the offset word (the length
\* of the ten words before it plus 32), the word len(RetryData), RetryData,
\* and the fewest zero bytes that fill the last word
C6_CallDataLayout ==
    (op = "data" /\ RequiredSet(x)) =>
        LET v == Load(heap, x)
            payload == IF v.RetryData = None THEN <<>> ELSE v.RetryData[1]
            n == Len(payload)
            d == out[1]
            retryTo == IF v.RetryTo = None THEN 0 ELSE v.RetryTo[1]
        IN /\ Len(out) = 1
           /\ \A i \in 1..Len(d) : d[i] \in 0..255
           /\ SubSeq(d, 1, 4) = <<201, 249, 93, 50>>
           /\ BEValue(Word(d, 1)) = v.RequestId
           /\ BEValue(Word(d, 2)) = v.L1BaseFee[1]
           /\ BEValue(Word(d, 3)) = v.DepositValue[1]
           /\ BEValue(Word(d, 4)) = v.RetryValue[1]
           /\ BEValue(Word(d, 5)) = v.GasFeeCap[1]
           /\ BEValue(Word(d, 6)) = v.Gas
           /\ BEValue(Word(d, 7)) = v.MaxSubmissionFee[1]
           /\ BEValue(Word(d, 8)) = v.FeeRefundAddr
           /\ BEValue(Word(d, 9)) = v.Beneficiary
           /\ BEValue(Word(d, 10)) = retryTo
           /\ BEValue(Word(d, 11)) = 10 * 32 + 32
           /\ BEValue(Word(d, 12)) = n
           /\ SubSeq(d, 4 + 12 * 32 + 1, 4 + 12 * 32 + n) = payload
           /\ Len(d) >= 4 + 12 * 32 + n
           /\ Len(d) < 4 + 12 * 32 + n + 32
           /\ (Len(d) - 4) % 32 = 0
           /\ \A i \in (4 + 12 * 32 + n + 1)..Len(d) : d[i] = 0

C6_Witness ==
    /\ op = "data"
    /\ RequiredSet(x)
    /\ x.RetryTo = Nil
    /\ Len(out) = 1
    /\ Len(out[1]) = 4 + 12 * 32 + 64
    /\ Len(heap[x.RetryData]) = 33
    /\ heap[x.GasFeeCap] = 769

(***************************************************************************)
(* JSON decoding.  The wire object txJSON has every field optional (a nil  *)
(* pointer when the key is absent): None or Some(value) here.  Type is     *)
(* the discriminant and Hash a plain value.  A decoded variant is kept by  *)
(* value: its pointer fields hold None or Some(value), as Load gives them. *)
(***************************************************************************)
WireFields == {"ChainID", "Nonce", "To", "Gas", "GasPrice", "MaxPriorityFeePerGas",
               "MaxFeePerGas", "Value", "Input", "AccessList", "V", "R", "S", "From",
               "SourceHash", "Mint", "IsSystemTx", "RequestId", "TicketId", "RefundTo",
               "MaxRefund", "SubmissionFeeRefund", "L1BaseFee", "DepositValue",
               "Beneficiary", "MaxSubmissionFee", "RetryTo", "RetryValue", "RetryData",
               "EffectiveGasPrice", "L1BlockNumber"}

ErrTxTypeNotSupported == "transaction type not supported"
ErrInvalidSig == "invalid transaction v, r, s values"

\* a faulty return: one message for every failure
Fail_OneMessage(e, inner) == [err |-> "invalid transaction", inner |-> inner]

\* the result of the decoding switch: the error ("" for nil) and the local
\* variable inner as it stands when the switch is left
Fail(e, inner) == [err |-> e, inner |-> inner]
Built(inner) == [err |-> "", inner |-> inner]

\* var itx DepositTx
ZeroDepositTx ==
    [kind |-> "DepositTx", SourceHash |-> 0, From |-> 0, To |-> None, Mint |-> None,
     Value |-> None, Gas |-> 0, IsSystemTransaction |-> FALSE, Data |-> None]

\* a faulty wrapper: the supplied nonce is not stored
WithNonce_NonceDropped(itx, n) ==
    [kind |-> "depositTxWithNonce", SourceHash |-> itx.SourceHash, From |-> itx.From,
     To |-> itx.To, Mint |-> itx.Mint, Value |-> itx.Value, Gas |-> itx.Gas,
     IsSystemTransaction |-> itx.IsSystemTransaction, Data |-> itx.Data,
     EffectiveNonce |-> 0]

\* &depositTxWithNonce{DepositTx: itx, EffectiveNonce: n}
WithNonce(itx, n) ==
    [kind |-> "depositTxWithNonce", SourceHash |-> itx.SourceHash, From |-> itx.From,
     To |-> itx.To, Mint |-> itx.Mint, Value |-> itx.Value, Gas |-> itx.Gas,
     IsSystemTransaction |-> itx.IsSystemTransaction, Data |-> itx.Data,
     EffectiveNonce |-> n]

\* a faulty test: zero and non-zero are not told apart
NonZero_AlwaysZero(o) == FALSE

\* a field that is present and not zero
NonZero(o) == o # None /\ o[1] # 0

\* the switch of unmarshalOptimismJSON; inner = &itx from line 118 on
OptimismSwitch(d) ==
    IF d.Type # OPDepositTxType THEN Fail(ErrTxTypeNotSupported, NoTx)
    ELSE IF d.AccessList # None \/ d.MaxFeePerGas # None \/ d.MaxPriorityFeePerGas # None
    THEN Fail("unexpected field(s) in deposit transaction", NoTx)
    ELSE IF NonZero(d.GasPrice)
    THEN Fail("deposit transaction GasPrice must be 0", NoTx)
    ELSE IF NonZero(d.V) \/ NonZero(d.R) \/ NonZero(d.S)
    THEN Fail("deposit transaction signature must be 0 or unset", NoTx)
    ELSE
    LET itx1 == [ZeroDepositTx EXCEPT !.To = d.To] IN
    IF d.Gas = None THEN Fail("missing required field 'gas' for txdata", itx1)
    ELSE
    LET itx2 == [itx1 EXCEPT !.Gas = d.Gas[1]] IN
    IF d.Value = None THEN Fail("missing required field 'value' in transaction", itx2)
    ELSE
    LET itx3 == [itx2 EXCEPT !.Value = d.Value, !.Mint = d.Mint] IN
    IF d.Input = None THEN Fail("missing required field 'input' in transaction", itx3)
    ELSE
    LET itx4 == [itx3 EXCEPT !.Data = d.Input] IN
    IF d.From = None THEN Fail("missing required field 'from' in transaction", itx4)
    ELSE
    LET itx5 == [itx4 EXCEPT !.From = d.From[1]] IN
    IF d.SourceHash = None
    THEN Fail("missing required field 'sourceHash' in transaction", itx5)
    ELSE
    LET itx6 == [itx5 EXCEPT !.SourceHash = d.SourceHash[1]]
        itx7 == IF d.IsSystemTx # None
                THEN [itx6 EXCEPT !.IsSystemTransaction = d.IsSystemTx[1]] ELSE itx6
    IN IF d.Nonce # None THEN Built(WithNonce(itx7, d.Nonce[1])) ELSE Built(itx7)

\* sanityCheckSignature(v, r, s, true): the recovery id taken from v must be
\* 0 or 1 and r, s at least 1 (the curve order is beyond the values here)
sanityCheckSignature(v, r, s) ==
    LET isProtectedV == v \notin {27, 28, 1, 0}
        plainV == IF isProtectedV THEN (v + 1) % 2 ELSE (v - 27) % 256
    IN IF r >= 1 /\ s >= 1 /\ plainV \in {0, 1} THEN "" ELSE ErrInvalidSig

\* a faulty chain: the last absent field of the list is the one reported
RECURSIVE FirstMissing_LastWins(_, _)
FirstMissing_LastWins(d, fs) ==
    IF fs = <<>> THEN ""
    ELSE LET rest == FirstMissing_LastWins(d, Tail(fs)) IN
         IF rest # "" THEN rest
         ELSE IF d[Head(fs)[1]] = None THEN Head(fs)[2] ELSE ""

\* the first field of the list that is absent, or "" when all are present
RECURSIVE FirstMissing(_, _)
FirstMissing(d, fs) ==
    IF fs = <<>> THEN ""
    ELSE IF d[Head(fs)[1]] = None THEN Head(fs)[2]
    ELSE FirstMissing(d, Tail(fs))

ArbitrumLegacyCase(d) ==
    LET missing == FirstMissing(d, <<
            <<"Nonce", "missing required field 'nonce' in transaction">>,
            <<"GasPrice", "missing required field 'gasPrice' in transaction">>,
            <<"Gas", "missing required field 'gas' in transaction">>,
            <<"Value", "missing required field 'value' in transaction">>,
            <<"Input", "missing required field 'input' in transaction">>,
            <<"V", "missing required field 'v' in transaction">>,
            <<"R", "missing required field 'r' in transaction">>,
            <<"S", "missing required field 's' in transaction">> >>)
    IN
    IF missing # "" THEN Fail(missing, NoTx)
    ELSE
    LET withSignature == d.V[1] # 0 \/ d.R[1] # 0 \/ d.S[1] # 0
        sanity == IF withSignature THEN sanityCheckSignature(d.V[1], d.R[1], d.S[1]) ELSE ""
    IN
    IF sanity # "" THEN Fail(sanity, NoTx)
    ELSE IF d.EffectiveGasPrice = None
    THEN Fail("missing required field 'EffectiveGasPrice' in transaction", NoTx)
    ELSE IF d.L1BlockNumber = None
    THEN Fail("missing required field 'L1BlockNumber' in transaction", NoTx)
    ELSE Built([kind |-> "ArbitrumLegacyTxData", Nonce |-> d.Nonce[1],
                GasPrice |-> d.GasPrice, Gas |-> d.Gas[1], To |-> d.To, Value |-> d.Value,
                Data |-> d.Input, V |-> d.V, R |-> d.R, S |-> d.S,
                HashOverride |-> d.Hash, EffectiveGasPrice |-> d.EffectiveGasPrice[1],
                L1BlockNumber |-> d.L1BlockNumber[1], Sender |-> d.From])

\* a faulty case: chainId is not required
ArbitrumInternalCase_ChainIdOptional(d) ==
    IF d.Input = None THEN Fail("missing required field 'input' in transaction", NoTx)
    ELSE Built([kind |-> "ArbitrumInternalTx", ChainId |-> d.ChainID, Data |-> d.Input])

ArbitrumInternalCase(d) ==
    LET missing == FirstMissing(d, <<
            <<"ChainID", "missing required field 'chainId' in transaction">>,
            <<"Input", "missing required field 'input' in transaction">> >>)
    IN IF missing # "" THEN Fail(missing, NoTx)
       ELSE Built([kind |-> "ArbitrumInternalTx", ChainId |-> d.ChainID, Data |-> d.Input])

ArbitrumDepositCase(d) ==
    LET missing == FirstMissing(d, <<
            <<"ChainID", "missing required field 'chainId' in transaction">>,
            <<"RequestId", "missing required field 'requestId' in transaction">>,
            <<"To", "missing required field 'to' in transaction">>,
            <<"From", "missing required field 'from' in transaction">>,
            <<"Value", "missing required field 'value' in transaction">> >>)
    IN IF missing # "" THEN Fail(missing, NoTx)
       ELSE Built([kind |-> "ArbitrumDepositTx", ChainId |-> d.ChainID,
                   L1RequestId |-> d.RequestId[1], To |-> d.To[1], From |-> d.From[1],
                   Value |-> d.Value])

ArbitrumUnsignedCase(d) ==
    LET missing == FirstMissing(d, <<
            <<"ChainID", "missing required field 'chainId' in transaction">>,
            <<"From", "missing required field 'from' in transaction">>,
            <<"Nonce", "missing required field 'nonce' in transaction">>,
            <<"MaxFeePerGas", "missing required field 'maxFeePerGas' for txdata">>,
            <<"Gas", "missing required field 'gas' in txdata">>,
            <<"Value", "missing required field 'value' in transaction">>,
            <<"Input", "missing required field 'input' in transaction">> >>)
    IN IF missing # "" THEN Fail(missing, NoTx)
       ELSE Built([kind |-> "ArbitrumUnsignedTx", ChainId |-> d.ChainID, From |-> d.From[1],
                   Nonce |-> d.Nonce[1], GasFeeCap |-> d.MaxFeePerGas, Gas |-> d.Gas[1],
                   To |-> d.To, Value |-> d.Value, Data |-> d.Input])

ArbitrumContractCase(d) ==
    LET missing == FirstMissing(d, <<
            <<"ChainID", "missing required field 'chainId' in transaction">>,
            <<"RequestId", "missing required field 'requestId' in transaction">>,
            <<"From", "missing required field 'from' in transaction">>,
            <<"MaxFeePerGas", "missing required field 'maxFeePerGas' for txdata">>,
            <<"Gas", "missing required field 'gas' in txdata">>,
            <<"Value", "missing required field 'value' in transaction">>,
            <<"Input", "missing required field 'input' in transaction">> >>)
    IN IF missing # "" THEN Fail(missing, NoTx)
       ELSE Built([kind |-> "ArbitrumContractTx", ChainId |-> d.ChainID,
                   RequestId |-> d.RequestId[1], From |-> d.From[1],
                   GasFeeCap |-> d.MaxFeePerGas, Gas |-> d.Gas[1], To |-> d.To,
                   Value |-> d.Value, Data |-> d.Input])

ArbitrumRetryCase(d) ==
    LET missing == FirstMissing(d, <<
            <<"ChainID", "missing required field 'chainId' in transaction">>,
            <<"Nonce", "missing required field 'nonce' in transaction">>,
            <<"From", "missing required field 'from' in transaction">>,
            <<"MaxFeePerGas", "missing required field 'maxFeePerGas' for txdata">>,
            <<"Gas", "missing required field 'gas' in txdata">>,
            <<"Value", "missing required field 'value' in transaction">>,
            <<"Input", "missing required field 'input' in transaction">>,
            <<"TicketId", "missing required field 'ticketId' in transaction">>,
            <<"RefundTo", "missing required field 'refundTo' in transaction">>,
            <<"MaxRefund", "missing required field 'maxRefund' in transaction">>,
            <<"SubmissionFeeRefund",
              "missing required field 'submissionFeeRefund' in transaction">> >>)
    IN IF missing # "" THEN Fail(missing, NoTx)
       ELSE Built([kind |-> "ArbitrumRetryTx", ChainId |-> d.ChainID, Nonce |-> d.Nonce[1],
                   From |-> d.From[1], GasFeeCap |-> d.MaxFeePerGas, Gas |-> d.Gas[1],
                   To |-> d.To, Value |-> d.Value, Data |-> d.Input,
                   TicketId |-> d.TicketId[1], RefundTo |-> d.RefundTo[1],
                   MaxRefund |-> d.MaxRefund,
                   SubmissionFeeRefund |-> d.SubmissionFeeRefund])

ArbitrumSubmitRetryableCase(d) ==
    LET missing == FirstMissing(d, <<
            <<"ChainID", "missing required field 'chainId' in transaction">>,
            <<"RequestId", "missing required field 'requestId' in transaction">>,
            <<"From", "missing required field 'from' in transaction">>,
            <<"L1BaseFee", "missing required field 'l1BaseFee' in transaction">>,
            <<"DepositValue", "missing required field 'depositValue' in transaction">>,
            <<"MaxFeePerGas", "missing required field 'maxFeePerGas' for txdata">>,
            <<"Gas", "missing required field 'gas' in txdata">>,
            <<"Beneficiary", "missing required field 'beneficiary' in transaction">>,
            <<"MaxSubmissionFee",
              "missing required field 'maxSubmissionFee' in transaction">>,
            <<"RefundTo", "missing required field 'refundTo' in transaction">>,
            <<"RetryValue", "missing required field 'retryValue' in transaction">>,
            <<"RetryData", "missing required field 'retryData' in transaction">> >>)
    IN IF missing # "" THEN Fail(missing, NoTx)
       ELSE Built([kind |-> "ArbitrumSubmitRetryableTx", ChainId |-> d.ChainID,
                   RequestId |-> d.RequestId[1], From |-> d.From[1],
                   L1BaseFee |-> d.L1BaseFee, DepositValue |-> d.DepositValue,
                   GasFeeCap |-> d.MaxFeePerGas, Gas |-> d.Gas[1], RetryTo |-> d.RetryTo,
                   RetryValue |-> d.RetryValue, Beneficiary |-> d.Beneficiary[1],
                   MaxSubmissionFee |-> d.MaxSubmissionFee,
                   FeeRefundAddr |-> d.RefundTo[1], RetryData |-> d.RetryData])

\* the switch of unmarshalArbitrumJSON
ArbitrumSwitch(d) ==
    CASE d.Type = ArbitrumLegacyTxType -> ArbitrumLegacyCase(d)
      [] d.Type = ArbitrumInternalTxType -> ArbitrumInternalCase(d)
      [] d.Type = ArbitrumDepositTxType -> ArbitrumDepositCase(d)
      [] d.Type = ArbitrumUnsignedTxType -> ArbitrumUnsignedCase(d)
      [] d.Type = ArbitrumContractTxType -> ArbitrumContractCase(d)
      [] d.Type = ArbitrumRetryTxType -> ArbitrumRetryCase(d)
      [] d.Type = ArbitrumSubmitRetryableTxType -> ArbitrumSubmitRetryableCase(d)
      [] OTHER -> Fail(ErrTxTypeNotSupported, NoTx)

(***************************************************************************)
(* The envelope: the attached variant and the lazily computed caches.      *)
(* setDecoded attaches a variant and drops what was cached for the one     *)
(* before it.                                                              *)
(***************************************************************************)
EmptyEnvelope == [inner |-> NoTx, hash |-> None, size |-> None]

setDecoded(t, inner) == [inner |-> inner, hash |-> None, size |-> None]

\* a faulty decode: the variant under construction is attached before the error is
\* looked at
unmarshalOptimismJSON_AttachesOnError(t, d) ==
    LET r == OptimismSwitch(d) IN
    IF r.inner = NoTx THEN [tx |-> t, err |-> r.err]
    ELSE [tx |-> setDecoded(t, r.inner), err |-> r.err]

unmarshalOptimismJSON(t, d) ==
    LET r == OptimismSwitch(d) IN
    IF r.err # "" THEN [tx |-> t, err |-> r.err]
    ELSE [tx |-> setDecoded(t, r.inner), err |-> ""]

\* a faulty decode: a type no case names falls into the internal case
unmarshalArbitrumJSON_DefaultIsInternal(t, d) ==
    LET r == IF d.Type \in {ArbitrumLegacyTxType, ArbitrumInternalTxType,
                            ArbitrumDepositTxType, ArbitrumUnsignedTxType,
                            ArbitrumContractTxType, ArbitrumRetryTxType,
                            ArbitrumSubmitRetryableTxType}
             THEN ArbitrumSwitch(d) ELSE ArbitrumInternalCase(d)
    IN IF r.err # "" THEN [tx |-> t, err |-> r.err]
       ELSE [tx |-> setDecoded(t, r.inner), err |-> ""]

unmarshalArbitrumJSON(t, d) ==
    LET r == ArbitrumSwitch(d) IN
    IF r.err # "" THEN [tx |-> t, err |-> r.err]
    ELSE [tx |-> setDecoded(t, r.inner), err |-> ""]

(***************************************************************************)
(* The canonical binary encoder (RLP): a byte string, an unsigned integer  *)
(* as its minimal big-endian bytes, a list as the concatenation of its     *)
(* items behind a length prefix.  A struct is the list of its fields in    *)
(* declaration order; a nil pointer is the empty string.                   *)
(***************************************************************************)
RECURSIVE MinimalBE(_)
MinimalBE(n) == IF n = 0 THEN <<>> ELSE MinimalBE(n \div 256) \o <<n % 256>>

RlpBytes(b) ==
    IF Len(b) = 1 /\ b[1] < 128 THEN b
    ELSE IF Len(b) <= 55 THEN <<128 + Len(b)>> \o b
    ELSE <<183 + Len(MinimalBE(Len(b)))>> \o MinimalBE(Len(b)) \o b

RlpUint(n) == RlpBytes(MinimalBE(n))

RlpBool(b) == IF b THEN <<1>> ELSE <<128>>

RlpList(payload) ==
    IF Len(payload) <= 55 THEN <<192 + Len(payload)>> \o payload
    ELSE <<247 + Len(MinimalBE(Len(payload)))>> \o MinimalBE(Len(payload)) \o payload

RlpBigPtr(o) == IF o = None THEN <<128>> ELSE RlpUint(o[1])
RlpAddressPtr(o) == IF o = None THEN <<128>> ELSE RlpBytes(AddressBytes(o[1]))
RlpBytesField(o) == IF o = None THEN <<128>> ELSE RlpBytes(o[1])

\* rlp.Encode of a DepositTx value
DepositTx_rlp(t) ==
    RlpList(RlpBytes(HashBytes(t.SourceHash)) \o RlpBytes(AddressBytes(t.From))
            \o RlpAddressPtr(t.To) \o RlpBigPtr(t.Mint) \o RlpBigPtr(t.Value)
            \o RlpUint(t.Gas) \o RlpBool(t.IsSystemTransaction) \o RlpBytesField(t.Data))

\* rlp.Encode of a LegacyTx value
LegacyTx_rlp(t) ==
    RlpList(RlpUint(t.Nonce) \o RlpBigPtr(t.GasPrice) \o RlpUint(t.Gas)
            \o RlpAddressPtr(t.To) \o RlpBigPtr(t.Value) \o RlpBytesField(t.Data)
            \o RlpBigPtr(t.V) \o RlpBigPtr(t.R) \o RlpBigPtr(t.S))

\* a faulty encoding: the wrapper is encoded field by field, the nonce included
depositTxWithNonce_EncodeRLP_WithNonce(t) ==
    RlpList(RlpBytes(HashBytes(t.SourceHash)) \o RlpBytes(AddressBytes(t.From))
            \o RlpAddressPtr(t.To) \o RlpBigPtr(t.Mint) \o RlpBigPtr(t.Value)
            \o RlpUint(t.Gas) \o RlpBool(t.IsSystemTransaction) \o RlpBytesField(t.Data)
            \o RlpUint(t.EffectiveNonce))

depositTxWithNonce_EncodeRLP(t) == DepositTx_rlp(DepositTxOf(t))

\* a faulty encoding: the sender override is written after the legacy fields
ArbitrumLegacyTxData_EncodeOnlyLegacyInto_WithSender(t) ==
    RlpList(RlpUint(t.Nonce) \o RlpBigPtr(t.GasPrice) \o RlpUint(t.Gas)
            \o RlpAddressPtr(t.To) \o RlpBigPtr(t.Value) \o RlpBytesField(t.Data)
            \o RlpBigPtr(t.V) \o RlpBigPtr(t.R) \o RlpBigPtr(t.S)
            \o RlpAddressPtr(t.Sender))

ArbitrumLegacyTxData_EncodeOnlyLegacyInto(t) == LegacyTx_rlp(LegacyTxOf(t))

\* the variants this code gives a binary encoding
Encodable == {"DepositTx", "depositTxWithNonce", "ArbitrumLegacyTxData"}

\* what the encoder writes for an attached variant: a variant with an
\* encoding method of its own is written by that method
CanonicalEncoding(v) ==
    CASE v.kind = "DepositTx" -> DepositTx_rlp(v)
      [] v.kind = "depositTxWithNonce" -> depositTxWithNonce_EncodeRLP(v)
      [] v.kind = "ArbitrumLegacyTxData" -> ArbitrumLegacyTxData_EncodeOnlyLegacyInto(v)

(***************************************************************************)
(* Wire objects.  For each discriminant the fields a well-formed object of *)
(* that type carries, from which up to MaxFlip fields are flipped (a       *)
(* carried one left out, a foreign one put in).  A signature profile       *)
(* picks the gas price and the signature values.                           *)
(***************************************************************************)
MaxFlip == 2
MaxSigProfile == 4

\* a discriminant neither routine handles
UnknownTypes == {0, 103}

WellFormed(type) ==
    CASE type = OPDepositTxType ->
            {"To", "Gas", "GasPrice", "Value", "Mint", "Input", "V", "R", "S", "From",
             "SourceHash", "IsSystemTx", "Nonce"}
      [] type = ArbitrumLegacyTxType ->
            {"Nonce", "GasPrice", "Gas", "To", "Value", "Input", "V", "R", "S",
             "EffectiveGasPrice", "L1BlockNumber", "From"}
      [] type = ArbitrumInternalTxType -> {"ChainID", "Input"}
      [] type = ArbitrumDepositTxType -> {"ChainID", "RequestId", "To", "From", "Value"}
      [] type = ArbitrumUnsignedTxType ->
            {"ChainID", "From", "Nonce", "MaxFeePerGas", "Gas", "To", "Value", "Input"}
      [] type = ArbitrumContractTxType ->
            {"ChainID", "RequestId", "From", "MaxFeePerGas", "Gas", "To", "Value", "Input"}
      [] type = ArbitrumRetryTxType ->
            {"ChainID", "Nonce", "From", "MaxFeePerGas", "Gas", "To", "Value", "Input",
             "TicketId", "RefundTo", "MaxRefund", "SubmissionFeeRefund"}
      [] type = ArbitrumSubmitRetryableTxType ->
            {"ChainID", "RequestId", "From", "L1BaseFee", "DepositValue", "MaxFeePerGas",
             "Gas", "Beneficiary", "MaxSubmissionFee", "RefundTo", "RetryTo",
             "RetryValue", "RetryData"}
      [] OTHER -> {}

ArbitrumTypes ==
    {ArbitrumLegacyTxType, ArbitrumInternalTxType, ArbitrumDepositTxType,
     ArbitrumUnsignedTxType, ArbitrumContractTxType, ArbitrumRetryTxType,
     ArbitrumSubmitRetryableTxType}

\* gas price and signature by profile: 0 and 4 unsigned with a zero price
\* (4 with isSystemTx false), 1 a valid signature and a price, 2 and 3
\* signatures that fail the sanity check, beyond that a replay-protected
\* signature
SigValue(f, sp) ==
    CASE f = "GasPrice" -> IF sp = 1 THEN 3 ELSE 0
      [] f = "V" -> CASE sp \in {0, 4} -> 0 [] sp = 1 -> 27 [] sp = 2 -> 1 [] sp = 3 -> 37
                      [] OTHER -> 38
      [] f = "R" -> IF sp \in {0, 4} THEN 0 ELSE 5
      [] f = "S" -> IF sp \in {0, 3, 4} THEN 0 ELSE 6

WireValue(f, sp) ==
    CASE f \in {"GasPrice", "V", "R", "S"} -> SigValue(f, sp)
      [] f = "ChainID" -> 1
      [] f = "Nonce" -> 7
      [] f = "To" -> 13
      [] f = "Gas" -> 4
      [] f = "MaxPriorityFeePerGas" -> 2
      [] f = "MaxFeePerGas" -> 3
      [] f = "Value" -> 5
      [] f = "Input" -> <<1, 2>>
      [] f = "AccessList" -> <<>>
      [] f = "From" -> 12
      [] f = "SourceHash" -> 11
      [] f = "Mint" -> 2
      [] f = "IsSystemTx" -> (sp # 4)
      [] f = "RequestId" -> 11
      [] f = "TicketId" -> 16
      [] f = "RefundTo" -> 14
      [] f = "MaxRefund" -> 6
      [] f = "SubmissionFeeRefund" -> 7
      [] f = "L1BaseFee" -> 2
      [] f = "DepositValue" -> 3
      [] f = "Beneficiary" -> 15
      [] f = "MaxSubmissionFee" -> 8
      [] f = "RetryTo" -> 17
      [] f = "RetryValue" -> 9
      [] f = "RetryData" -> <<3>>
      [] f = "EffectiveGasPrice" -> 8
      [] f = "L1BlockNumber" -> 9

\* the wire object of the given type carrying exactly the fields of P
Wire(type, P, sp) ==
    [f \in WireFields \cup {"Type", "Hash"} |->
        IF f = "Type" THEN type
        ELSE IF f = "Hash" THEN 21
        ELSE IF f \in P THEN Some(WireValue(f, sp)) ELSE None]

\* the sets of at most k wire fields
RECURSIVE FieldSets(_)
FieldSets(k) ==
    IF k = 0 THEN {{}}
    ELSE LET S == FieldSets(k - 1) IN S \cup {D \cup {f} : D \in S, f \in WireFields}

Flips(type) == FieldSets(IF WellFormed(type) = {} THEN 1 ELSE MaxFlip)

Flipped(type, D) == (WellFormed(type) \ D) \cup (D \ WellFormed(type))

SigProfiles(type) ==
    IF type \in {OPDepositTxType, ArbitrumLegacyTxType} THEN 0..MaxSigProfile ELSE {0}

(***************************************************************************)
(* Decoding into an envelope.  tx is the envelope, dec the wire object     *)
(* handed to the last decode, err what it returned, out the bytes the      *)
(* last encoding produced.  The envelope starts empty, or holding an       *)
(* earlier decoded variant whose caches have been filled.                  *)
(***************************************************************************)
Encoded(t) ==
    [t EXCEPT !.hash = Some(CanonicalEncoding(t.inner)),
              !.size = Some(Len(CanonicalEncoding(t.inner)))]

WarmEnvelope ==
    Encoded(unmarshalOptimismJSON(EmptyEnvelope,
                Wire(OPDepositTxType, WellFormed(OPDepositTxType), 0)).tx)

DecodeOps == {"unmarshalOptimismJSON", "unmarshalArbitrumJSON"}

InitDecode ==
    /\ tx \in {EmptyEnvelope, WarmEnvelope}
    /\ err = ""
    /\ dec = Idle
    /\ out = <<>>
    /\ op = "new"
    /\ heap = Globals
    /\ x = NoTx
    /\ c = NoTx
    /\ ret = NoRet
    /\ nmut = 0

UnmarshalOptimismJSON ==
    /\ op = "new"
    /\ \E type \in {OPDepositTxType, ArbitrumLegacyTxType} \cup UnknownTypes :
         \E D \in Flips(type), sp \in SigProfiles(type) :
            LET d == Wire(type, Flipped(type, D), sp)
                r == unmarshalOptimismJSON(tx, d)
            IN /\ dec' = d
               /\ tx' = r.tx
               /\ err' = r.err
    /\ op' = "unmarshalOptimismJSON"
    /\ UNCHANGED <<heap, x, c, ret, nmut, out>>

UnmarshalArbitrumJSON ==
    /\ op = "new"
    /\ \E type \in ArbitrumTypes \cup {OPDepositTxType} \cup UnknownTypes :
         \E D \in Flips(type), sp \in SigProfiles(type) :
            LET d == Wire(type, Flipped(type, D), sp)
                r == unmarshalArbitrumJSON(tx, d)
            IN /\ dec' = d
               /\ tx' = r.tx
               /\ err' = r.err
    /\ op' = "unmarshalArbitrumJSON"
    /\ UNCHANGED <<heap, x, c, ret, nmut, out>>

\* the attached variant is written by the canonical encoder and the caches
\* are filled from the bytes
Encode ==
    /\ op \in DecodeOps
    /\ err = ""
    /\ tx.inner.kind \in Encodable
    /\ out' = CanonicalEncoding(tx.inner)
    /\ tx' = Encoded(tx)
    /\ op' = "Encode"
    /\ UNCHANGED <<heap, x, c, ret, nmut, err, dec>>

NextDecode == UnmarshalOptimismJSON \/ UnmarshalArbitrumJSON \/ Encode

SpecDecode == InitDecode /\ [][NextDecode]_vars

\* the pointer fields a decoded variant must carry
FullyPopulated(v) == \A f \in PtrSet(v.kind) \ OptionalFields : v[f] # None

KindsOfType(type) ==
    CASE type = OPDepositTxType -> {"DepositTx", "depositTxWithNonce"}
      [] type = ArbitrumLegacyTxType -> {"ArbitrumLegacyTxData"}
      [] type = ArbitrumInternalTxType -> {"ArbitrumInternalTx"}
      [] type = ArbitrumDepositTxType -> {"ArbitrumDepositTx"}
      [] type = ArbitrumUnsignedTxType -> {"ArbitrumUnsignedTx"}
      [] type = ArbitrumContractTxType -> {"ArbitrumContractTx"}
      [] type = ArbitrumRetryTxType -> {"ArbitrumRetryTx"}
      [] type = ArbitrumSubmitRetryableTxType -> {"ArbitrumSubmitRetryableTx"}
      [] OTHER -> {}

\* C1: a decode either returns an error and leaves the envelope (attached
\* variant, hash and size caches) exactly as it was, or returns nil having
\* attached one variant of the object's type whose required fields are all
\* set.
C1_DecodeAtomic ==
    [][op' \in DecodeOps =>
          IF err' # "" THEN tx' = tx
          ELSE /\ tx'.inner.kind \in KindsOfType(dec'.Type)
               /\ FullyPopulated(tx'.inner)]_vars

\* a decode that failed after the variant under construction had fields
\* assigned, into an envelope that held a variant with filled caches
C1_Witness ==
    /\ op = "unmarshalOptimismJSON"
    /\ err = "missing required field 'from' in transaction"
    /\ tx = WarmEnvelope
    /\ dec.Input # None

\* the metadata a wrapper carries besides its base variant
Metadata == {0, 7, 300}
SenderOverrides == {None, Some(12), Some(300)}

\* C10: the bytes written for a nonce-carrying deposit are those of its
\* embedded DepositTx, equal to the encoding of the same wire object decoded
\* with the nonce stripped, whatever the nonce; the bytes written for a
\* legacy wrapper are those of the wrapped LegacyTx, whatever the hash
\* override, effective gas price, block number and sender.
C10_WrapperEncodesBase ==
    op = "Encode" =>
        /\ tx.inner.kind = "depositTxWithNonce" =>
              /\ out = DepositTx_rlp(DepositTxOf(tx.inner))
              /\ LET s == unmarshalOptimismJSON(EmptyEnvelope, [dec EXCEPT !.Nonce = None])
                 IN /\ s.err = ""
                    /\ s.tx.inner.kind = "DepositTx"
                    /\ CanonicalEncoding(s.tx.inner) = out
              /\ \A n \in Metadata :
                    CanonicalEncoding([tx.inner EXCEPT !.EffectiveNonce = n]) = out
        /\ tx.inner.kind = "ArbitrumLegacyTxData" =>
              /\ out = LegacyTx_rlp(LegacyTxOf(tx.inner))
              /\ \A h \in Metadata, g \in Metadata, b \in Metadata, s \in SenderOverrides :
                    CanonicalEncoding([tx.inner EXCEPT !.HashOverride = h,
                                                       !.EffectiveGasPrice = g,
                                                       !.L1BlockNumber = b,
                                                       !.Sender = s]) = out

\* a nonce-carrying deposit and a legacy wrapper with a sender override have
\* been encoded
C10_Witness ==
    /\ op = "Encode"
    /\ \/ tx.inner.kind = "depositTxWithNonce" /\ tx.inner.EffectiveNonce = 7
       \/ tx.inner.kind = "ArbitrumLegacyTxData" /\ tx.inner.Sender # None

(***************************************************************************)
(* Properties of the deposit decode, checked under SpecDecode.             *)
(***************************************************************************)
DepositDecoded == op = "unmarshalOptimismJSON" /\ dec.Type = OPDepositTxType

Absent(f) == dec[f] = None
AbsentOrZero(f) == dec[f] = None \/ dec[f][1] = 0

C12_DepositDefaults ==
    (DepositDecoded /\ err = "") =>
        LET bare == unmarshalOptimismJSON(EmptyEnvelope, [dec EXCEPT !.Nonce = None]) IN
        /\ tx.inner.IsSystemTransaction =
              (IF Absent("IsSystemTx") THEN FALSE ELSE dec.IsSystemTx[1])
        /\ bare.err = ""
        /\ bare.tx.inner.kind = "DepositTx"
        /\ IF Absent("Nonce") THEN tx.inner = bare.tx.inner
           ELSE /\ tx.inner.kind = "depositTxWithNonce"
                /\ tx.inner.EffectiveNonce = dec.Nonce[1]
                /\ DepositTxOf(tx.inner) = bare.tx.inner

\* an object with a nonce and without isSystemTx has been decoded
C12_Witness ==
    /\ DepositDecoded
    /\ err = ""
    /\ Absent("IsSystemTx") /\ ~Absent("Nonce")
    /\ tx.inner.kind = "depositTxWithNonce"
    /\ tx.inner.IsSystemTransaction = FALSE

\* C13: a decode of an object whose type the routine does not handle (any
\* type but 0x7e for unmarshalOptimismJSON, any type but the seven Arbitrum
\* types for unmarshalArbitrumJSON) returns ErrTxTypeNotSupported and leaves
\* the envelope as it was, whatever fields the object carries.
C13_UnsupportedType ==
    [][/\ (op' = "unmarshalOptimismJSON" /\ dec'.Type # OPDepositTxType) =>
             (err' = ErrTxTypeNotSupported /\ tx' = tx)
       /\ (op' = "unmarshalArbitrumJSON" /\ dec'.Type \notin ArbitrumTypes) =>
             (err' = ErrTxTypeNotSupported /\ tx' = tx)]_vars

\* unmarshalArbitrumJSON has been handed an object of a type in the gap of
\* the Arbitrum types that carries the fields of an internal transaction
C13_Witness ==
    /\ op = "unmarshalArbitrumJSON"
    /\ dec.Type = 103
    /\ ~Absent("ChainID")
    /\ err = ErrTxTypeNotSupported
    /\ tx = WarmEnvelope

(***************************************************************************)
(* Properties of the Arbitrum decode, checked under SpecDecode.            *)
(***************************************************************************)
ArbitrumDecoded == op = "unmarshalArbitrumJSON" /\ dec.Type \in ArbitrumTypes

\* the wire fields each Arbitrum type is said to require
RequiredWire(type) ==
    CASE type = ArbitrumLegacyTxType ->
            {"Nonce", "GasPrice", "Gas", "Value", "Input", "V", "R", "S",
             "EffectiveGasPrice", "L1BlockNumber"}
      [] type = ArbitrumUnsignedTxType ->
            {"ChainID", "From", "Nonce", "MaxFeePerGas", "Gas", "Value", "Input"}
      [] type = ArbitrumContractTxType ->
            {"ChainID", "RequestId", "From", "MaxFeePerGas", "Gas", "Value", "Input"}
      [] type = ArbitrumInternalTxType -> {"ChainID", "Input"}
      [] type = ArbitrumRetryTxType ->
            {"ChainID", "Nonce", "From", "MaxFeePerGas", "Gas", "Value", "Input",
             "TicketId", "RefundTo", "MaxRefund", "SubmissionFeeRefund"}
      [] type = ArbitrumSubmitRetryableTxType ->
            {"ChainID", "RequestId", "From", "L1BaseFee", "DepositValue", "MaxFeePerGas",
             "Gas", "Beneficiary", "MaxSubmissionFee", "RefundTo", "RetryValue",
             "RetryData"}
      [] type = ArbitrumDepositTxType -> {"ChainID", "RequestId", "To", "From", "Value"}

\* the wire field each field of a variant is taken from
WireOf(kind) ==
    CASE kind = "ArbitrumLegacyTxData" ->
            [Nonce |-> "Nonce", GasPrice |-> "GasPrice", Gas |-> "Gas", To |-> "To",
             Value |-> "Value", Data |-> "Input", V |-> "V", R |-> "R", S |-> "S",
             HashOverride |-> "Hash", EffectiveGasPrice |-> "EffectiveGasPrice",
             L1BlockNumber |-> "L1BlockNumber", Sender |-> "From"]
      [] kind = "ArbitrumUnsignedTx" ->
            [ChainId |-> "ChainID", From |-> "From", Nonce |-> "Nonce",
             GasFeeCap |-> "MaxFeePerGas", Gas |-> "Gas", To |-> "To", Value |-> "Value",
             Data |-> "Input"]
      [] kind = "ArbitrumContractTx" ->
            [ChainId |-> "ChainID", RequestId |-> "RequestId", From |-> "From",
             GasFeeCap |-> "MaxFeePerGas", Gas |-> "Gas", To |-> "To", Value |-> "Value",
             Data |-> "Input"]
      [] kind = "ArbitrumInternalTx" -> [ChainId |-> "ChainID", Data |-> "Input"]
      [] kind = "ArbitrumRetryTx" ->
            [ChainId |-> "ChainID", Nonce |-> "Nonce", From |-> "From",
             GasFeeCap |-> "MaxFeePerGas", Gas |-> "Gas", To |-> "To", Value |-> "Value",
             Data |-> "Input", TicketId |-> "TicketId", RefundTo |-> "RefundTo",
             MaxRefund |-> "MaxRefund", SubmissionFeeRefund |-> "SubmissionFeeRefund"]
      [] kind = "ArbitrumSubmitRetryableTx" ->
            [ChainId |-> "ChainID", RequestId |-> "RequestId", From |-> "From",
             L1BaseFee |-> "L1BaseFee", DepositValue |-> "DepositValue",
             GasFeeCap |-> "MaxFeePerGas", Gas |-> "Gas", RetryTo |-> "RetryTo",
             RetryValue |-> "RetryValue", Beneficiary |-> "Beneficiary",
             MaxSubmissionFee |-> "MaxSubmissionFee", FeeRefundAddr |-> "RefundTo",
             RetryData |-> "RetryData"]
      [] kind = "ArbitrumDepositTx" ->
            [ChainId |-> "ChainID", L1RequestId |-> "RequestId", To |-> "To",
             From |-> "From", Value |-> "Value"]

\* field f of variant v holds what the wire object carries: a pointer field
\* the optional value itself, a plain field the value
CarriesWire(v, d, f) ==
    LET w == WireOf(v.kind)[f] IN
    IF w = "Hash" THEN v[f] = d.Hash
    ELSE IF f \in PtrSet(v.kind) THEN v[f] = d[w]
    ELSE d[w] # None /\ v[f] = d[w][1]

\* v, r, s are all zero, or pass the signature sanity check
SignatureAcceptable(d) ==
    \/ d.V[1] = 0 /\ d.R[1] = 0 /\ d.S[1] = 0
    \/ sanityCheckSignature(d.V[1], d.R[1], d.S[1]) = ""

\* C14: an object of an Arbitrum type decodes if and only if every field its
\* type requires is present and, for the legacy type, v, r, s are all zero
\* or pass the sanity check; on success every field of the attached variant
\* holds the value of the wire field it is taken from.
C14_ArbitrumDecodesIff ==
    ArbitrumDecoded =>
        /\ err = "" <=>
              /\ \A f \in RequiredWire(dec.Type) : ~Absent(f)
              /\ dec.Type = ArbitrumLegacyTxType => SignatureAcceptable(dec)
        /\ err = "" =>
              /\ tx.inner.kind \in KindsOfType(dec.Type)
              /\ DOMAIN tx.inner = DOMAIN WireOf(tx.inner.kind) \cup {"kind"}
              /\ \A f \in DOMAIN WireOf(tx.inner.kind) : CarriesWire(tx.inner, dec, f)

\* a signed legacy object without to and without sender has been decoded
C14_Witness ==
    /\ ArbitrumDecoded
    /\ dec.Type = ArbitrumLegacyTxType
    /\ err = ""
    /\ dec.V[1] = 27
    /\ Absent("To") /\ Absent("From")
    /\ tx.inner.To = None /\ tx.inner.Sender = None

(***************************************************************************)
(* What a decode error tells.  An error is an errors.New value or one of   *)
(* the two package-level error values: its message is all it carries.      *)
(* NamedField reads the one wire field a message names, "" when it names   *)
(* none or several.                                                        *)
(***************************************************************************)
MissingFieldNamed(e) ==
    CASE e = "missing required field 'nonce' in transaction" -> "Nonce"
      [] e = "missing required field 'gasPrice' in transaction" -> "GasPrice"
      [] e \in {"missing required field 'gas' in transaction",
                "missing required field 'gas' in txdata",
                "missing required field 'gas' for txdata"} -> "Gas"
      [] e = "missing required field 'value' in transaction" -> "Value"
      [] e = "missing required field 'input' in transaction" -> "Input"
      [] e = "missing required field 'v' in transaction" -> "V"
      [] e = "missing required field 'r' in transaction" -> "R"
      [] e = "missing required field 's' in transaction" -> "S"
      [] e = "missing required field 'EffectiveGasPrice' in transaction" ->
            "EffectiveGasPrice"
      [] e = "missing required field 'L1BlockNumber' in transaction" -> "L1BlockNumber"
      [] e = "missing required field 'chainId' in transaction" -> "ChainID"
      [] e = "missing required field 'requestId' in transaction" -> "RequestId"
      [] e = "missing required field 'to' in transaction" -> "To"
      [] e = "missing required field 'from' in transaction" -> "From"
      [] e = "missing required field 'maxFeePerGas' for txdata" -> "MaxFeePerGas"
      [] e = "missing required field 'ticketId' in transaction" -> "TicketId"
      [] e = "missing required field 'refundTo' in transaction" -> "RefundTo"
      [] e = "missing required field 'maxRefund' in transaction" -> "MaxRefund"
      [] e = "missing required field 'submissionFeeRefund' in transaction" ->
            "SubmissionFeeRefund"
      [] e = "missing required field 'l1BaseFee' in transaction" -> "L1BaseFee"
      [] e = "missing required field 'depositValue' in transaction" -> "DepositValue"
      [] e = "missing required field 'beneficiary' in transaction" -> "Beneficiary"
      [] e = "missing required field 'maxSubmissionFee' in transaction" ->
            "MaxSubmissionFee"
      [] e = "missing required field 'retryValue' in transaction" -> "RetryValue"
      [] e = "missing required field 'retryData' in transaction" -> "RetryData"
      [] e = "missing required field 'sourceHash' in transaction" -> "SourceHash"
      [] OTHER -> ""

ErrUnexpectedFields == "unexpected field(s) in deposit transaction"
ErrGasPriceNotZero == "deposit transaction GasPrice must be 0"
ErrSignatureNotZero == "deposit transaction signature must be 0 or unset"

NamedField(e) ==
    CASE e = ErrTxTypeNotSupported -> "Type"
      [] e = ErrGasPriceNotZero -> "GasPrice"
      [] e \in {ErrUnexpectedFields, ErrSignatureNotZero, ErrInvalidSig} -> ""
      [] OTHER -> MissingFieldNamed(e)

\* the kind of failure a message stands for
ErrorKind(e) ==
    CASE e = ErrTxTypeNotSupported -> "UnsupportedType"
      [] e = ErrUnexpectedFields -> "UnexpectedField"
      [] e \in {ErrGasPriceNotZero, ErrSignatureNotZero, ErrInvalidSig} -> "InvalidValue"
      [] MissingFieldNamed(e) # "" -> "MissingField"
      [] OTHER -> "unknown"

DecodeFailed == op \in DecodeOps /\ err # ""

TypeHandled ==
    IF op = "unmarshalOptimismJSON" THEN dec.Type = OPDepositTxType
    ELSE dec.Type \in ArbitrumTypes

FeeMarketWire == {"AccessList", "MaxFeePerGas", "MaxPriorityFeePerGas"}
SignatureWire == {"V", "R", "S"}

\* C15 as stated: every failure names the single offending wire field: the
\* type, a required field that is absent, a forbidden field that is present,
\* or the gas price or signature component that is not zero
C15_Original ==
    DecodeFailed =>
        LET n == NamedField(err) IN
        CASE ErrorKind(err) = "UnsupportedType" -> n = "Type" /\ ~TypeHandled
          [] ErrorKind(err) = "MissingField" -> Absent(n)
          [] ErrorKind(err) = "UnexpectedField" -> n \in FeeMarketWire /\ ~Absent(n)
          [] ErrorKind(err) = "InvalidValue" ->
                n \in SignatureWire \cup {"GasPrice"} /\ NonZero(dec[n])
          [] OTHER -> FALSE

\* C15: every failure returns one of the messages of the code.  The
\* unsupported-type error is returned exactly for a type the routine does
\* not handle; a missing-field message names a field that is absent; the gas
\* price message names gasPrice, which is not zero.  The message for a
\* forbidden field names none of the three fields, one of which is present;
\* the deposit signature message names none of v, r, s, one of which is not
\* zero; the sanity-check error names none of v, r, s.
C15_ErrorNamesField ==
    DecodeFailed =>
        LET n == NamedField(err) IN
        CASE ErrorKind(err) = "UnsupportedType" -> n = "Type" /\ ~TypeHandled
          [] ErrorKind(err) = "MissingField" -> Absent(n)
          [] err = ErrUnexpectedFields ->
                n = "" /\ \E f \in FeeMarketWire : ~Absent(f)
          [] err = ErrGasPriceNotZero -> n = "GasPrice" /\ NonZero(dec.GasPrice)
          [] err = ErrSignatureNotZero ->
                n = "" /\ \E f \in SignatureWire : NonZero(dec[f])
          [] err = ErrInvalidSig ->
                n = "" /\ dec.Type = ArbitrumLegacyTxType /\ ~SignatureAcceptable(dec)
          [] OTHER -> FALSE

\* a deposit object carrying an access list has been refused
C15_Witness ==
    /\ DecodeFailed
    /\ err = ErrUnexpectedFields
    /\ ~Absent("AccessList")

(***************************************************************************)
(* Properties of setSignatureValues, checked under SpecCopy.               *)
(***************************************************************************)
Unsignable == SystemKinds \cup FeeMarketKinds

\* C16: on a variant that cannot be signed a setSignatureValues call, with
\* any arguments, leaves the heap and every field of the variant as they
\* were, and rawSignatureValues() then returns three non-nil pointers to
\* zero.
C16_SetSignatureNoOp ==
    [][(op' = "setSignatureValues" /\ Target(ret'.who).kind \in Unsignable) =>
          /\ heap' = heap /\ x' = x /\ c' = c
          /\ LET t == IF ret'.who = "x" THEN x' ELSE c'
                 raw == accessors(heap', t).rawSignatureValues
             IN \A i \in 1..3 : raw[i] # PNil /\ Val(heap', raw[i]) = Some(0)]_vars

\* setSignatureValues has been called on the copy of a retry transaction
C16_Witness ==
    /\ op = "setSignatureValues"
    /\ ret.who = "c"
    /\ c.kind = "ArbitrumRetryTx"

\* C18: copy() returns for every constructed variant, whichever of its
\* pointer fields are nil, and a nil non-optional big-integer field of the
\* original is a zero in the copy.
C18_CopyTotal ==
    /\ op # "panic"
    /\ op = "copy" =>
          \A f \in RequiredBigFields(x.kind) \cap PtrSet(c.kind) :
              x[f] = Nil => (c[f] # Nil /\ heap[c[f]] = 0)

(***************************************************************************)
(* The order of the checks.  A check is <<violated, kind, field>>: whether *)
(* the wire object violates it, and the kind of error and the field named  *)
(* ("" for none) when it is the one reported.                              *)
(***************************************************************************)
Missing(f) == <<Absent(f), "MissingField", f>>

DepositChecks ==
    << <<\E f \in FeeMarketWire : ~Absent(f), "UnexpectedField", "">>,
       <<NonZero(dec.GasPrice), "InvalidValue", "GasPrice">>,
       <<\E f \in SignatureWire : NonZero(dec[f]), "InvalidValue", "">>,
       Missing("Gas"), Missing("Value"), Missing("Input"), Missing("From"),
       Missing("SourceHash") >>

LegacyChecks ==
    << Missing("Nonce"), Missing("GasPrice"), Missing("Gas"), Missing("Value"),
       Missing("Input"), Missing("V"), Missing("R"), Missing("S"),
       <<(\A f \in SignatureWire : ~Absent(f)) /\ ~SignatureAcceptable(dec),
         "InvalidValue", "">>,
       Missing("EffectiveGasPrice"), Missing("L1BlockNumber") >>

SubmitRetryableChecks ==
    << Missing("ChainID"), Missing("RequestId"), Missing("From"), Missing("L1BaseFee"),
       Missing("DepositValue"), Missing("MaxFeePerGas"), Missing("Gas"),
       Missing("Beneficiary"), Missing("MaxSubmissionFee"), Missing("RefundTo"),
       Missing("RetryValue"), Missing("RetryData") >>

Violated(checks) == {i \in 1..Len(checks) : checks[i][1]}

\* the error is the one of the earliest violated check, nil when none is
FirstErrorWins(checks) ==
    IF Violated(checks) = {} THEN err = ""
    ELSE LET k == CHOOSE i \in Violated(checks) : \A j \in Violated(checks) : i <= j
         IN ErrorKind(err) = checks[k][2] /\ NamedField(err) = checks[k][3]

\* C17: for the types 0x7e, 0x78 and 0x69 the error returned is the one of
\* the earliest check the wire object violates, in the order of the type's
\* sequence; when several checks are violated the later ones do not show.
C17_FirstErrorWins ==
    /\ DepositDecoded => FirstErrorWins(DepositChecks)
    /\ (ArbitrumDecoded /\ dec.Type = ArbitrumLegacyTxType) => FirstErrorWins(LegacyChecks)
    /\ (ArbitrumDecoded /\ dec.Type = ArbitrumSubmitRetryableTxType) =>
          FirstErrorWins(SubmitRetryableChecks)

\* a submit-retryable object lacking requestId and retryData has been
\* refused for its requestId
C17_Witness ==
    /\ ArbitrumDecoded
    /\ dec.Type = ArbitrumSubmitRetryableTxType
    /\ Absent("RequestId") /\ Absent("RetryData")
    /\ NamedField(err) = "RequestId"

====
